---- MODULE Spec2Model ----
(***************************************************************************)
(* A model of the avitolog scraper (internal/parser/categories.go).        *)
(*                                                                         *)
(* The parser is a set of entry points (GetCategories, GetListings,        *)
(* handleCatalogPage, GetListingDetails) over one package-level rate       *)
(* limiter (lastRequestTime, waitForRateLimit).  Each part of the program  *)
(* is modelled as its own state machine over its own variables; a          *)
(* specification runs one machine and leaves the variables of the others   *)
(* at their idle values.                                                   *)
(*                                                                         *)
(* Time is counted in whole seconds.  Strings whose characters the code    *)
(* inspects (URLs, hrefs, node texts) are sequences of one-character       *)
(* strings.                                                                *)
(***************************************************************************)
EXTENDS Integers, Sequences, FiniteSets, TLC

VARIABLES
    \* ---- the rate limiter and its callers
    now,              \* the wall clock, in seconds (time.Now())
    lastRequestTime,  \* package variable lastRequestTime
    pc,               \* per execution context: position inside waitForRateLimit
    wakeAt,           \* per execution context: when its time.Sleep may return
    stamp,            \* per execution context: what its time.Now() of line 484 returned
    grants,           \* history: the acquisitions granted, in order
    calls,            \* per execution context: calls of waitForRateLimit made
    \* ---- a sequential run of the entry points
    op,               \* the entry point whose page request is being prepared
    acq,              \* waitForRateLimit calls made for that request so far
    reqLog,           \* history: the page requests issued, in order
    \* ---- one page fetch of a collector with its OnError callback
    fKind,            \* the entry point that owns the collector, or "none"
    fVisited,         \* the collector's store of visited URLs holds the URL
    fSent,            \* history: the requests sent for this fetch, in order
    fStack,           \* the OnError callbacks that are running, innermost last
    fRotations,       \* how often a callback has set a User-Agent header
    fRecovers,        \* the site answers every request after the first with 200
    fParsed,          \* responses handed to the OnResponse/OnHTML callbacks
    fResult,          \* what the entry point returned: "none", "ok", "err"
    fLog,             \* history: the fetches that have returned
    \* ---- one call of GetListingDetails
    dIn,              \* the listing passed in
    dPage,            \* the detail page the site holds for its URL
    dStatus,          \* the status the site answered with
    dDone,            \* the call has returned
    dOut,             \* what it returned, and what it did on the way
    \* ---- one call of GetListings on a category page
    lLimit,           \* the limit passed in
    lPage,            \* the listing page the site holds for the URL
    lStatus,          \* the status the site answered the page request with
    lFailing,         \* the listing URLs whose detail request the site fails
    lDone,            \* the call has returned
    lOut,             \* what it returned, and what it did on the way
    \* ---- one call of GetListings on a catalog URL
    cLimit,           \* the limit passed in
    cSite,            \* the catalog pages of the site, by URL
    cStack,           \* the calls of handleCatalogPage that run, innermost last
    cDone,            \* the outermost call has returned
    cOut,             \* what it returned, and what it did on the way
    \* ---- one call of getSubcategories
    sPage,            \* the category page the site holds
    sStatus,          \* the status the site answered with
    sDone,            \* the call has returned
    sOut,             \* what it returned
    \* ---- one call of GetCategories
    gPage,            \* the root page the site holds
    gStatus,          \* the status the site answered the root request with
    gFailing,         \* the category URLs whose request the site fails
    gOrder,           \* the order in which the range over categoryMap ran
    gDone,            \* the call has returned
    gOut,             \* what it returned, and what it did on the way
    gFirst,           \* what an earlier call over the same site returned
    \* ---- normalizeURL, applied to an href and then to its own result
    nIn,              \* the href
    nOut,             \* normalizeURL(nIn)
    nAgain,           \* normalizeURL(nOut)
    nStep,            \* how many of the two calls have returned
    \* ---- one call of parsePrice
    pIn,              \* the raw text
    pOut,             \* the Price returned
    pDone,            \* the call has returned
    \* ---- one call of ParseItemsFromHTML on the document lPage
    hDone,            \* the call has returned
    hOut              \* what it returned, and what it did on the way

rateVars == <<now, lastRequestTime, pc, wakeAt, stamp, grants, calls>>
seqVars == <<op, acq, reqLog>>
fetchVars == <<fKind, fVisited, fSent, fStack, fRotations, fRecovers, fParsed, fResult, fLog>>

detVars == <<dIn, dPage, dStatus, dDone, dOut>>

lstVars == <<lLimit, lPage, lStatus, lFailing, lDone, lOut>>

catVars == <<cLimit, cSite, cStack, cDone, cOut>>

subVars == <<sPage, sStatus, sDone, sOut>>

rootVars == <<gPage, gStatus, gFailing, gOrder, gDone, gOut, gFirst>>

urlVars == <<nIn, nOut, nAgain, nStep>>

priceVars == <<pIn, pOut, pDone>>

htmlVars == <<hDone, hOut>>

vars == <<rateVars, seqVars, fetchVars, detVars, lstVars, catVars, subVars, rootVars,
          urlVars, priceVars, htmlVars>>

(***************************************************************************)
(* Bounds of the model.                                                    *)
(***************************************************************************)
\* the clock stops ticking here
MaxTime == 7
\* waitForRateLimit calls per concurrent context
MaxCalls == 2
\* page requests in one sequential run
MaxRequests == 3
\* page fetches whose outcome the history keeps
MaxFetches == 2
\* requests one fetch may send before the model stops it
MaxSent == 6
\* gallery images of a detail page
MaxImages == 1
\* item cards of a listing page
MaxCards == 2
\* results containers of a listing page
MaxContainers == 2
\* anchors of a listing page outside its cards
MaxAnchors == 1
\* the largest limit passed to GetListings
MaxLimit == 2
\* anchors of a catalog page
MaxLinks == 3
\* calls of handleCatalogPage on the stack
MaxDepth == 3
\* anchors of a category page
MaxSubLinks == 3
\* elements of the root page that a rule matches
MaxEntries == 2
\* characters of an href
MaxHrefLen == 4
\* characters of a price text
MaxPriceLen == 3

(***************************************************************************)
(* The rate limiter.                                                       *)
(***************************************************************************)
minRequestInterval == 3

Ctx == {1, 2}

\* var lastRequestTime = time.Now().Add(-minRequestInterval), with the clock
\* at 0 when the package is initialised.
InitRate ==
    /\ now = 0
    /\ lastRequestTime = 0 - minRequestInterval
    /\ pc = [p \in Ctx |-> "idle"]
    /\ wakeAt = [p \in Ctx |-> 0]
    /\ stamp = [p \in Ctx |-> 0]
    /\ grants = <<>>
    /\ calls = [p \in Ctx |-> 0]

\* time.Since(lastRequestTime)
Elapsed == now - lastRequestTime

\* if elapsed < minRequestInterval
MustSleep(elapsed) == elapsed < minRequestInterval

\* The right-hand side of line 484: time.Now()
StoredTime == now

\* Line 478-481: one read of the shared variable and of the clock, and the
\* decision to sleep.  Nothing orders this read against another context's
\* write at line 484: there is no lock in the function.
WaitElapsed(p) ==
    /\ pc[p] = "elapsed"
    /\ IF MustSleep(Elapsed)
          THEN /\ wakeAt' = [wakeAt EXCEPT ![p] = now + (minRequestInterval - Elapsed)]
               /\ pc' = [pc EXCEPT ![p] = "sleep"]
          ELSE /\ pc' = [pc EXCEPT ![p] = "store"]
               /\ UNCHANGED wakeAt
    /\ UNCHANGED <<now, lastRequestTime, stamp, grants, calls>>

\* Line 482: time.Sleep(sleepTime) returns once the duration has passed.
WaitSleep(p) ==
    /\ pc[p] = "sleep"
    /\ now >= wakeAt[p]
    /\ pc' = [pc EXCEPT ![p] = "store"]
    /\ UNCHANGED <<now, lastRequestTime, wakeAt, stamp, grants, calls>>

\* Line 484, right-hand side: the context reads the clock.  The value is
\* the context's own until the assignment stores it; nothing keeps another
\* context from reading the clock and storing in between.
WaitNow(p) ==
    /\ pc[p] = "store"
    /\ stamp' = [stamp EXCEPT ![p] = StoredTime]
    /\ pc' = [pc EXCEPT ![p] = "write"]
    /\ UNCHANGED <<now, lastRequestTime, wakeAt, grants, calls>>

\* Line 484-485: the store, and the return to the caller (the grant).
WaitStore(p) ==
    /\ pc[p] = "write"
    /\ lastRequestTime' = stamp[p]
    /\ grants' = Append(grants, [ctx |-> p, at |-> now])
    /\ pc' = [pc EXCEPT ![p] = "idle"]
    /\ UNCHANGED <<now, wakeAt, stamp, calls>>

\* One second passes.
Tick ==
    /\ now < MaxTime
    /\ now' = now + 1
    /\ UNCHANGED <<lastRequestTime, pc, wakeAt, stamp, grants, calls>>

(***************************************************************************)
(* Concurrent callers: every context calls waitForRateLimit on its own.    *)
(***************************************************************************)
RateCall(p) ==
    /\ pc[p] = "idle"
    /\ calls[p] < MaxCalls
    /\ calls' = [calls EXCEPT ![p] = @ + 1]
    /\ pc' = [pc EXCEPT ![p] = "elapsed"]
    /\ UNCHANGED <<now, lastRequestTime, wakeAt, stamp, grants>>

(***************************************************************************)
(* A sequential run: one context issues page requests, one entry point     *)
(* after the other.                                                        *)
(***************************************************************************)
Ops == {"root", "subcategory", "listings", "catalog", "details"}

\* How many times the entry point calls waitForRateLimit before its page
\* request leaves: once before c.Visit and once in the OnRequest callback for
\* GetListings (653, 516), handleCatalogPage (874, 716) and GetListingDetails
\* (1044, 970); never in GetCategories (207-209, 315) and getSubcategories
\* (349-353, 402), whose collectors have no such callback.
Acquisitions(k) ==
    CASE k = "root" -> 0
      [] k = "subcategory" -> 0
      [] k = "listings" -> 2
      [] k = "catalog" -> 2
      [] k = "details" -> 2

SeqStart(k) ==
    /\ op = "none"
    /\ Len(reqLog) < MaxRequests
    /\ op' = k
    /\ acq' = 0
    /\ UNCHANGED <<reqLog, rateVars>>

SeqAcquire ==
    /\ op # "none"
    /\ pc[1] = "idle"
    /\ acq < Acquisitions(op)
    /\ acq' = acq + 1
    /\ pc' = [pc EXCEPT ![1] = "elapsed"]
    /\ UNCHANGED <<op, reqLog, now, lastRequestTime, wakeAt, stamp, grants, calls>>

\* The request leaves (colly's fetch, after the OnRequest callbacks).
SeqRequest ==
    /\ op # "none"
    /\ pc[1] = "idle"
    /\ acq = Acquisitions(op)
    /\ reqLog' = Append(reqLog, [op |-> op, at |-> now, acq |-> acq])
    /\ op' = "none"
    /\ acq' = 0
    /\ UNCHANGED rateVars

(***************************************************************************)
(* One page fetch through a colly collector.                               *)
(*                                                                         *)
(* GetListings, handleCatalogPage and GetListingDetails each build a new   *)
(* collector, register an OnError callback and call c.Visit(url).  The     *)
(* collector's fetch runs the OnRequest callbacks, sends the request and,  *)
(* for a transport error or a status of 203 and above, runs the OnError    *)
(* callbacks and returns the error to whoever asked for the fetch: c.Visit *)
(* in the entry point, or c.Request in a running OnError callback.         *)
(***************************************************************************)
maxRetries == 3

FetchKinds == {"listings", "catalog", "details"}

\* What a request can come back with: 0 stands for a transport error (no
\* response at all; colly then hands the callback a Response whose StatusCode
\* is 0).
Statuses == {200, 429, 500, 0}

\* colly.UserAgent(...) of the three collectors (lines 498, 699, 960).
CollectorUA == "Chrome/120 Macintosh"

\* userAgents (lines 533-537, 733-737), indexed from 0 as in Go.
userAgents == <<"Chrome/91 Windows", "Safari iPhone", "Chrome/92 Linux">>

UserAgentAt(i) == userAgents[i + 1]

\* handleOnError: err != nil, or a status of 203 and above.
IsError(status) == status = 0 \/ status >= 203

\* The collectors are built without colly.AllowURLRevisit() (lines 496-500,
\* 697-701, 958-962): c.Visit and c.Request refuse a URL that the collector's
\* store already holds, before any callback runs and before anything is sent.
AllowURLRevisitOn == TRUE

AllowURLRevisit == FALSE

\* The OnError callback of GetListingDetails (973-975) only logs.
HasRetryLoop(kind) == kind \in {"listings", "catalog"}

\* if r.StatusCode == 429 (lines 521, 721)
ShouldRetryAnyError(kind, status) == HasRetryLoop(kind)

ShouldRetry(kind, status) == HasRetryLoop(kind) /\ status = 429

\* The request colly sends for c.Visit(url) or c.Request("GET", url, nil, ctx,
\* nil): a new Request whose headers are the hdr argument (nil both times),
\* to which colly adds the collector's User-Agent.
NewRequest(status) == [ua |-> CollectorUA, status |-> status]

\* The frame of an OnError callback that has just been entered: the response
\* it was called with, its local retries, and the User-Agent header of
\* r.Request, the request that failed.
NewFrame(req) == [status |-> req.status, retries |-> 0, ua |-> req.ua]

Pop(stack) == SubSeq(stack, 1, Len(stack) - 1)

Top(stack) == stack[Len(stack)]

\* The entry point calls c.Visit(url): the URL is new to the collector, so it
\* is stored as visited and the request is sent.  A good response goes to the
\* OnResponse/OnHTML callbacks and the entry point returns a nil error; a
\* failed one enters the OnError callback.
FetchVisit(kind, status) ==
    /\ fKind = "none"
    /\ Len(fLog) < MaxFetches
    /\ fKind' = kind
    /\ fVisited' = TRUE
    /\ fSent' = <<NewRequest(status)>>
    /\ fRotations' = 0
    /\ fRecovers' \in BOOLEAN
    /\ IF IsError(status)
          THEN /\ fStack' = <<NewFrame(NewRequest(status))>>
               /\ fParsed' = 0
               /\ fResult' = "none"
          ELSE /\ fStack' = <<>>
               /\ fParsed' = 1
               /\ fResult' = "ok"
    /\ UNCHANGED fLog

\* The innermost OnError callback returns: its status is not one it retries,
\* or its loop has run maxRetries times.  The fetch that called it returns its
\* error: to c.Visit when this was the outermost callback (the entry point
\* then returns "error visiting ... page"), else to the loop of the callback
\* below, which goes on with err != nil.
FetchHandlerReturn ==
    /\ fStack # <<>>
    /\ \/ ~ShouldRetry(fKind, Top(fStack).status)
       \/ Top(fStack).retries >= maxRetries
    /\ fStack' = Pop(fStack)
    /\ fResult' = IF Len(fStack) = 1 THEN "err" ELSE fResult
    /\ UNCHANGED <<fKind, fVisited, fSent, fRotations, fRecovers, fParsed, fLog>>

\* One turn of the retry loop of the innermost callback (527-548, 727-748):
\* retries++, the User-Agent header of the failed request is set, and
\* c.Request is called for the same URL.
FetchRetry ==
    /\ fStack # <<>>
    /\ ShouldRetry(fKind, Top(fStack).status)
    /\ Top(fStack).retries < maxRetries
    /\ Len(fSent) < MaxSent
    /\ LET f == Top(fStack)
           n == f.retries + 1
           g == [f EXCEPT !.retries = n, !.ua = UserAgentAt(n % Len(userAgents))]
       IN /\ fRotations' = fRotations + 1
          /\ IF fVisited /\ ~AllowURLRevisit
                THEN \* c.Request returns colly's already-visited error
                     /\ fStack' = [fStack EXCEPT ![Len(fStack)] = g]
                     /\ UNCHANGED <<fSent, fParsed>>
                ELSE \E status \in (IF fRecovers THEN {200} ELSE Statuses) :
                     /\ fSent' = Append(fSent, NewRequest(status))
                     /\ IF IsError(status)
                           THEN \* the new fetch enters the callback again
                                /\ fStack' = Append([fStack EXCEPT ![Len(fStack)] = g],
                                                    NewFrame(NewRequest(status)))
                                /\ UNCHANGED fParsed
                           ELSE \* err == nil: the callback returns, and the
                                \* fetch that called it returns its own error
                                /\ fStack' = Pop(fStack)
                                /\ fParsed' = fParsed + 1
    /\ fResult' = IF fStack' = <<>> THEN "err" ELSE fResult
    /\ UNCHANGED <<fKind, fVisited, fRecovers, fLog>>

\* The entry point has returned; the caller goes on to its next fetch, with a
\* new collector.
FetchDone ==
    /\ fResult # "none"
    /\ fLog' = Append(fLog, [kind |-> fKind, first |-> fSent[1].status,
                             sent |-> Len(fSent), result |-> fResult])
    /\ fKind' = "none"
    /\ fVisited' = FALSE
    /\ fSent' = <<>>
    /\ fStack' = <<>>
    /\ fRotations' = 0
    /\ fRecovers' = FALSE
    /\ fParsed' = 0
    /\ fResult' = "none"

(***************************************************************************)
(* Strings.  A string whose characters the code looks at is a sequence of  *)
(* symbols, one per character; a word the code only searches for as a      *)
(* whole (a currency sign, a month name) is one symbol.                    *)
(***************************************************************************)
\* unicode.IsSpace, for the characters that occur in the model
WhiteSpace == {" ", "\n", "\t"}

Digits == {"0", "1", "2", "3", "4", "5", "6", "7", "8", "9"}

DigitVal(c) ==
    CASE c = "0" -> 0 [] c = "1" -> 1 [] c = "2" -> 2 [] c = "3" -> 3
      [] c = "4" -> 4 [] c = "5" -> 5 [] c = "6" -> 6 [] c = "7" -> 7
      [] c = "8" -> 8 [] c = "9" -> 9

RECURSIVE TrimLeft(_)
TrimLeft(s) ==
    IF s # <<>> /\ Head(s) \in WhiteSpace THEN TrimLeft(Tail(s)) ELSE s

RECURSIVE TrimRight(_)
TrimRight(s) ==
    IF s # <<>> /\ s[Len(s)] \in WhiteSpace
       THEN TrimRight(SubSeq(s, 1, Len(s) - 1))
       ELSE s

\* strings.TrimSpace
TrimSpace(s) == TrimRight(TrimLeft(s))

\* strings.HasPrefix
HasPrefix(s, prefix) ==
    Len(s) >= Len(prefix) /\ SubSeq(s, 1, Len(prefix)) = prefix

\* strings.Contains
Contains(s, sub) ==
    \E i \in 1..(Len(s) - Len(sub) + 1) : SubSeq(s, i, i + Len(sub) - 1) = sub

\* strings.Index for a one-character separator: 0 when it does not occur
IndexOf(s, c) ==
    IF \E i \in 1..Len(s) : s[i] = c
       THEN CHOOSE i \in 1..Len(s) : s[i] = c /\ \A j \in 1..(i - 1) : s[j] # c
       ELSE 0

\* strings.Split(s, sep) for a one-character separator
RECURSIVE Split(_, _)
Split(s, c) ==
    LET i == IndexOf(s, c)
    IN IF i = 0
          THEN <<s>>
          ELSE <<SubSeq(s, 1, i - 1)>> \o Split(SubSeq(s, i + 1, Len(s)), c)

\* strings.ReplaceAll(s, old, new) for one-character old; new is a string
RECURSIVE ReplaceAll(_, _, _)
ReplaceAll(s, old, new) ==
    IF s = <<>> THEN <<>>
    ELSE (IF Head(s) = old THEN new ELSE <<Head(s)>>) \o ReplaceAll(Tail(s), old, new)

\* goquery's Selection.Text(): the texts of the selected nodes, concatenated;
\* a selection is the sequence of its nodes' texts, in document order.
RECURSIVE SelText(_)
SelText(nodes) ==
    IF nodes = <<>> THEN <<>> ELSE Head(nodes) \o SelText(Tail(nodes))

(***************************************************************************)
(* parsePrice.                                                             *)
(***************************************************************************)
Dollar == "$"

Euro == "euro"

\* priceRegex = [\d\s,.]+ ; \s is [\t\n\f\r ]
PriceClass == Digits \cup {" ", "\t", "\n", ",", "."}

\* The longest run of characters of the class that starts at position i
RECURSIVE RunFrom(_, _, _)
RunFrom(s, i, class) ==
    IF i <= Len(s) /\ s[i] \in class
       THEN <<s[i]>> \o RunFrom(s, i + 1, class)
       ELSE <<>>

\* priceRegex.FindString: the leftmost match, as long as it can be; "" when
\* nothing matches
FindPriceRun(s) ==
    IF \E i \in 1..Len(s) : s[i] \in PriceClass
       THEN RunFrom(s, CHOOSE i \in 1..Len(s) :
                          s[i] \in PriceClass /\ \A j \in 1..(i - 1) : s[j] \notin PriceClass,
                    PriceClass)
       ELSE <<>>

RECURSIVE DigitsValue(_, _)
DigitsValue(s, acc) ==
    IF s = <<>> THEN acc ELSE DigitsValue(Tail(s), acc * 10 + DigitVal(Head(s)))

\* A decimal number n / 10^k in lowest terms of 10: the float64 the digits denote
RECURSIVE Decimal(_, _)
Decimal(n, k) ==
    IF k > 0 /\ n % 10 = 0 THEN Decimal(n \div 10, k - 1) ELSE [n |-> n, k |-> k]

Zero == [n |-> 0, k |-> 0]

\* strconv.ParseFloat(valueStr, 64) on a string of digits and points: digits
\* with at most one point and at least one digit; anything else is an error
ParseFloat(s) ==
    LET parts == Split(s, ".")
        allDigits(x) == \A i \in 1..Len(x) : x[i] \in Digits
    IN IF Len(parts) = 1 /\ parts[1] # <<>> /\ allDigits(parts[1])
          THEN [ok |-> TRUE, value |-> Decimal(DigitsValue(parts[1], 0), 0)]
       ELSE IF /\ Len(parts) = 2
               /\ parts[1] \o parts[2] # <<>>
               /\ allDigits(parts[1]) /\ allDigits(parts[2])
          THEN [ok |-> TRUE,
                value |-> Decimal(DigitsValue(parts[1] \o parts[2], 0), Len(parts[2]))]
       ELSE [ok |-> FALSE, value |-> Zero]

ZeroPrice == [Value |-> Zero, Currency |-> "", Text |-> <<>>]

\* A parsePrice that looks for the euro sign first
parsePriceEuroFirst(priceText) ==
    [Value |-> IF FindPriceRun(priceText) # <<>>
                  /\ ParseFloat(ReplaceAll(ReplaceAll(FindPriceRun(priceText), " ", <<>>),
                                           ",", <<".">>)).ok
                  THEN ParseFloat(ReplaceAll(ReplaceAll(FindPriceRun(priceText), " ", <<>>),
                                             ",", <<".">>)).value
                  ELSE Zero,
     Currency |-> IF Contains(priceText, <<Euro>>) THEN "EUR"
                  ELSE IF Contains(priceText, <<Dollar>>) THEN "USD"
                  ELSE "RUB",
     Text |-> priceText]

\* 1141-1171
parsePrice(priceText) ==
    LET currency == IF Contains(priceText, <<Dollar>>) THEN "USD"
                    ELSE IF Contains(priceText, <<Euro>>) THEN "EUR"
                    ELSE "RUB"
        matches == FindPriceRun(priceText)
        valueStr == ReplaceAll(ReplaceAll(matches, " ", <<>>), ",", <<".">>)
        parsed == ParseFloat(valueStr)
    IN [Value |-> IF matches # <<>> /\ parsed.ok THEN parsed.value ELSE Zero,
        Currency |-> currency,
        Text |-> priceText]

(***************************************************************************)
(* URLs.                                                                   *)
(***************************************************************************)
\* "https://www.avito.ru"
baseURL == <<"h", "t", "t", "p", "s", ":", "/", "/", "w", "w", "w", ".", "a", "v", "i", "t", "o", ".", "r", "u">>

Letters ==
    {"a", "b", "c", "d", "e", "f", "g", "h", "i", "j", "k", "l", "m",
     "n", "o", "p", "q", "r", "s", "t", "u", "v", "w", "x", "y", "z"}

\* net/url getScheme: the scheme of rawURL, "" when it has none; err when the
\* string starts with a colon
RECURSIVE GetScheme(_, _)
GetScheme(rawURL, i) ==
    IF i > Len(rawURL) THEN [scheme |-> <<>>, err |-> FALSE]
    ELSE IF rawURL[i] \in Letters THEN GetScheme(rawURL, i + 1)
    ELSE IF rawURL[i] \in Digits \cup {"+", "-", "."}
       THEN IF i = 1 THEN [scheme |-> <<>>, err |-> FALSE]
                     ELSE GetScheme(rawURL, i + 1)
    ELSE IF rawURL[i] = ":"
       THEN IF i = 1 THEN [scheme |-> <<>>, err |-> TRUE]
                     ELSE [scheme |-> SubSeq(rawURL, 1, i - 1), err |-> FALSE]
    ELSE [scheme |-> <<>>, err |-> FALSE]

\* net/url validOptionalPort: "" or a colon followed by digits
ValidOptionalPort(port) ==
    port = <<>> \/ (port[1] = ":" /\ \A i \in 2..Len(port) : port[i] \in Digits)

\* The part of the authority from its last colon on, "" when it has none
ColonPort(authority) ==
    IF \E i \in 1..Len(authority) : authority[i] = ":"
       THEN SubSeq(authority,
                   CHOOSE i \in 1..Len(authority) :
                       authority[i] = ":" /\ \A j \in (i + 1)..Len(authority) : authority[j] # ":",
                   Len(authority))
       ELSE <<>>

\* net/url Parse, as far as normalizeURL looks at its result: the scheme, the
\* host, and the errors a string of letters, digits, "/", ":", "?", "#", "-", "."
\* can raise (a leading colon; a colon in the first segment of a relative
\* path; a port that is not a number)
URLParse(rawURL) ==
    LET noFragment == Split(rawURL, "#")[1]
        s == GetScheme(noFragment, 1)
        rest == IF s.scheme = <<>> THEN noFragment
                ELSE SubSeq(noFragment, Len(s.scheme) + 2, Len(noFragment))
        path == Split(rest, "?")[1]
        authority == IF /\ HasPrefix(path, <<"/", "/">>)
                        /\ (s.scheme # <<>> \/ ~HasPrefix(path, <<"/", "/", "/">>))
                        THEN Split(SubSeq(path, 3, Len(path)), "/")[1]
                        ELSE <<>>
    IN IF s.err THEN [scheme |-> <<>>, host |-> <<>>, err |-> TRUE]
       ELSE IF /\ s.scheme = <<>>
               /\ ~HasPrefix(path, <<"/">>)
               /\ Contains(Split(path, "/")[1], <<":">>)
          THEN [scheme |-> <<>>, host |-> <<>>, err |-> TRUE]
       ELSE IF ~ValidOptionalPort(ColonPort(authority))
          THEN [scheme |-> <<>>, host |-> <<>>, err |-> TRUE]
       ELSE [scheme |-> s.scheme, host |-> authority, err |-> FALSE]

\* (*URL).IsAbs
IsAbs(u) == u.scheme # <<>>

\* A join that takes every href for a path of the site
normalizeURLJoining(href) ==
    IF HasPrefix(href, <<"/">>) THEN baseURL \o href ELSE baseURL \o <<"/">> \o href

\* 420-445
normalizeURL(href) ==
    IF HasPrefix(href, <<"h", "t", "t", "p">>) THEN href
    ELSE IF HasPrefix(href, <<"/", "/">>) THEN <<"h", "t", "t", "p", "s", ":">> \o href
    ELSE IF HasPrefix(href, <<"/">>) THEN baseURL \o href
    ELSE IF URLParse(href).err THEN baseURL \o <<"/">> \o href
    ELSE IF ~IsAbs(URLParse(href)) THEN baseURL \o <<"/">> \o href
    ELSE href

\* "/item/"
ItemSegment == <<"/", "i", "t", "e", "m", "/">>

\* "/catalog/"
CatalogSegment == <<"/", "c", "a", "t", "a", "l", "o", "g", "/">>

\* catalogRegex.MatchString
IsCatalogURL(u) == Contains(u, CatalogSegment)

\* The digits a string ends with
RECURSIVE TrailingDigits(_)
TrailingDigits(s) ==
    IF s # <<>> /\ s[Len(s)] \in Digits
       THEN TrailingDigits(SubSeq(s, 1, Len(s) - 1)) \o <<s[Len(s)]>>
       ELSE <<>>

\* itemIDRegex = _(\d+)$|/(\d+)$ with FindStringSubmatch, and the choice
\* between matches[1] and matches[2]: the digits the string ends with, when
\* "_" or "/" stands before them; "" otherwise
ItemIDOf(href) ==
    LET d == TrailingDigits(href)
        before == Len(href) - Len(d)
    IN IF d # <<>> /\ before >= 1 /\ href[before] \in {"_", "/"} THEN d ELSE <<>>

(***************************************************************************)
(* parseDate.  A time.Time is a record: the midnight that starts the day   *)
(* `back` days before today, a calendar date, or the instant of the clock. *)
(***************************************************************************)
Segodnya == "segodnya"     \* the word for "today"
Vchera == "vchera"         \* the word for "yesterday"
Yanvarya == "yanvarya"     \* the month name of the first two layouts
Yanv == "yanv"             \* the month name of the next two

ZeroTime == [kind |-> "zero"]

\* formats (1189-1196).  Of a Go layout only 02, 01, 2006 and 06 are fields;
\* every other character, the Cyrillic month names included, must occur in
\* the value as it stands.
formats ==
    << <<"DD", " ", Yanvarya, " ", "YYYY">>,
       <<"DD", " ", Yanvarya>>,
       <<"DD", " ", Yanv, " ", "YYYY">>,
       <<"DD", " ", Yanv>>,
       <<"DD", ".", "MM", ".", "YYYY">>,
       <<"DD", ".", "MM", ".", "YY">> >>

FieldWidth(f) == IF f = "YYYY" THEN 4 ELSE 2

IsField(f) == f \in {"DD", "MM", "YYYY", "YY"}

\* time.Parse(layout, value), field by field; acc holds the fields read so
\* far, with Go's defaults (year 0, month 1, day 1)
RECURSIVE ParseLayout(_, _, _)
ParseLayout(layout, value, acc) ==
    IF layout = <<>>
       THEN [acc EXCEPT !.ok = (value = <<>>)]
    ELSE IF IsField(Head(layout))
       THEN LET w == FieldWidth(Head(layout))
                d == SubSeq(value, 1, w)
            IN IF Len(value) < w \/ \E i \in 1..w : value[i] \notin Digits
                  THEN [acc EXCEPT !.ok = FALSE]
                  ELSE LET v == DigitsValue(d, 0)
                           next ==
                             CASE Head(layout) = "DD" -> [acc EXCEPT !.day = v]
                               [] Head(layout) = "MM" -> [acc EXCEPT !.month = v]
                               [] Head(layout) = "YYYY" -> [acc EXCEPT !.year = v]
                               [] Head(layout) = "YY" ->
                                    [acc EXCEPT !.year = IF v >= 69 THEN 1900 + v ELSE 2000 + v]
                       IN ParseLayout(Tail(layout), SubSeq(value, w + 1, Len(value)), next)
    ELSE IF value # <<>> /\ Head(value) = Head(layout)
       THEN ParseLayout(Tail(layout), Tail(value), acc)
    ELSE [acc EXCEPT !.ok = FALSE]

IsLeap(y) == y % 4 = 0 /\ (y % 100 # 0 \/ y % 400 = 0)

DaysIn(m, y) ==
    IF m = 2 THEN (IF IsLeap(y) THEN 29 ELSE 28)
    ELSE IF m \in {4, 6, 9, 11} THEN 30 ELSE 31

\* time.Parse: the fields, then the range checks of month and day
TimeParse(layout, value) ==
    LET r == ParseLayout(layout, value, [ok |-> TRUE, year |-> 0, month |-> 1, day |-> 1])
    IN [r EXCEPT !.ok = /\ r.ok
                        /\ r.month \in 1..12
                        /\ r.day >= 1
                        /\ r.day <= DaysIn(r.month, r.year)]

RECURSIVE FirstFormat(_, _)
FirstFormat(value, i) ==
    IF i > Len(formats) THEN 0
    ELSE IF TimeParse(formats[i], value).ok THEN i
    ELSE FirstFormat(value, i + 1)

\* The symbols of the model have no upper case: strings.ToLower changes none.
ToLower(s) == s

parseDate(dateText, clock) ==
    LET dateStr == ToLower(TrimSpace(dateText))
        i == FirstFormat(dateStr, 1)
    IN IF Contains(dateStr, <<Segodnya>>) THEN [kind |-> "midnight", back |-> 0]
       ELSE IF Contains(dateStr, <<Vchera>>) THEN [kind |-> "midnight", back |-> 1]
       ELSE IF i # 0
          THEN LET t == TimeParse(formats[i], dateStr)
               IN [kind |-> "date",
                   year |-> IF t.year = 0 THEN "current" ELSE t.year,
                   month |-> t.month,
                   day |-> t.day]
       ELSE [kind |-> "instant", at |-> clock]

(***************************************************************************)
(* GetListingDetails.                                                      *)
(*                                                                         *)
(* A detail page is the record of what its selectors select: for each     *)
(* selector of the function the texts (for images, the attributes) of the  *)
(* matching nodes in document order; an empty sequence is a page without   *)
(* that region.  A map[string]string is a set of <<key, value>> pairs with *)
(* one pair per key.                                                       *)
(***************************************************************************)
MapPut(m, k, v) == {e \in m : e[1] # k} \cup {<<k, v>>}

\* waitForRateLimit in a single context: the time at which a call made at
\* time t returns, and which it stores
AfterWait(t, last) ==
    IF MustSleep(t - last) THEN t + (minRequestInterval - (t - last)) ELSE t

\* c.OnHTML("h1", ...), registered only when listing.Title == "" (977-982)
RECURSIVE OnH1(_, _)
OnH1(listing, h1s) ==
    IF h1s = <<>> THEN listing
    ELSE OnH1([listing EXCEPT !.Title = TrimSpace(Head(h1s))], Tail(h1s))

\* 991-1003: one gallery image
ImageOf(img) ==
    IF img.src # <<>> THEN <<img.src>>
    ELSE IF img.srcset # <<>> THEN <<Split(img.srcset, " ")[1]>>
    ELSE IF img.dataSrc # <<>> THEN <<img.dataSrc>>
    ELSE <<>>

RECURSIVE AppendImages(_, _)
AppendImages(urls, imgs) ==
    IF imgs = <<>> THEN urls
    ELSE AppendImages(urls \o ImageOf(Head(imgs)), Tail(imgs))

\* 1024-1035: the attributes of the params nodes
RECURSIVE ParamsOf(_, _)
ParamsOf(attributes, nodes) ==
    IF nodes = <<>> THEN attributes
    ELSE LET text == TrimSpace(Head(nodes))
             parts == Split(text, ":")
         IN IF text # <<>> /\ Len(parts) = 2
               THEN ParamsOf(MapPut(attributes, TrimSpace(parts[1]), TrimSpace(parts[2])),
                             Tail(nodes))
               ELSE ParamsOf(attributes, Tail(nodes))

\* 986-988
DescriptionOf(listing, page) == TrimSpace(SelText(page.description))

\* 1005-1007
LocationOf(listing, page) == TrimSpace(SelText(page.address))

\* 1009-1015
PriceOf(listing, page) ==
    IF listing.Price.Value = Zero /\ SelText(page.price) # <<>>
       THEN parsePrice(SelText(page.price))
       ELSE listing.Price

\* 1037-1040
AttributesOf(listing, page) ==
    IF ParamsOf({}, page.params) # {}
       THEN ParamsOf({}, page.params)
       ELSE listing.Attributes

\* c.OnHTML("body", ...) (985-1041)
OnBody(listing, page, clock) ==
    [listing EXCEPT
        !.Description = DescriptionOf(listing, page),
        !.ImageURLs = AppendImages(listing.ImageURLs, page.images),
        !.Location = LocationOf(listing, page),
        !.Price = PriceOf(listing, page),
        !.PublishedAt = IF SelText(page.date) # <<>>
                           THEN parseDate(SelText(page.date), clock)
                           ELSE listing.PublishedAt,
        !.Attributes = AttributesOf(listing, page)]

\* The callbacks colly runs on a good response, in the order they were
\* registered: h1, then body.
OnDetailPage(listing, page, clock) ==
    OnBody(IF listing.Title = <<>> THEN OnH1(listing, page.h1) ELSE listing, page, clock)

\* An early return that takes its turn at the rate limiter first
OnEmptyURLWaiting(listing, t, last) ==
    [listing |-> listing, err |-> "listing URL is empty",
     sent |-> 0, waits |-> 1, at |-> AfterWait(t, last), clock |-> AfterWait(t, last)]

\* 954-956: the early return, before the collector is built
OnEmptyURL(listing, t, last) ==
    [listing |-> listing, err |-> "listing URL is empty",
     sent |-> 0, waits |-> 0, at |-> last, clock |-> t]

\* GetListingDetails(listing) against a site that answers the request for
\* listing.URL with `status` and `page`; the clock shows `t` at the call.
\* sent: the requests that left; waits: the calls of waitForRateLimit; at:
\* the time of the last of them.
GetListingDetails(listing, page, status, t, last) ==
    IF listing.URL = <<>> THEN OnEmptyURL(listing, t, last)
    ELSE LET t1 == AfterWait(t, last)       \* line 1044
             t2 == AfterWait(t1, t1)        \* line 970, in OnRequest
         IN IF IsError(status)
               THEN [listing |-> listing, err |-> "error visiting listing page",
                     sent |-> 1, waits |-> 2, at |-> t2, clock |-> t2]
               ELSE [listing |-> OnDetailPage(listing, page, t2), err |-> "nil",
                     sent |-> 1, waits |-> 2, at |-> t2, clock |-> t2]

(***************************************************************************)
(* GetListings, the standard path.                                         *)
(*                                                                         *)
(* A listing page is a record: `cards`, the elements an item selector      *)
(* matches, in document order, each with the number `serp` of the          *)
(* div[data-marker='catalog-serp'] that contains it, and `loose`, the      *)
(* anchors outside the cards, which follow them.  A card holds what        *)
(* parseListing reads from it; an anchor its href (<<>>: no such           *)
(* attribute), its text and the text of a price node inside it.            *)
(***************************************************************************)
\* itemSelectors of the catalog-serp callback (561-567)
itemSelectors ==
    <<"div[data-marker='item']", "div[data-marker='item-card']", "div.item",
      "div.item-card", "div.iva-item-root">>

\* colly's ChildAttr("a[href]", "href"): the first anchor that has an href
RECURSIVE FirstHref(_)
FirstHref(links) ==
    IF links = <<>> THEN <<>>
    ELSE IF Head(links).href # <<>> THEN TrimSpace(Head(links).href)
    ELSE FirstHref(Tail(links))

\* colly's ChildAttr("a", "href"): the href of the first anchor
FirstAnchorHref(links) ==
    IF links = <<>> THEN <<>> ELSE TrimSpace(Head(links).href)

\* 1097-1104: every anchor whose href contains "/item/" assigns url
RECURSIVE LastItemHref(_, _)
LastItemHref(links, url) ==
    IF links = <<>> THEN url
    ELSE LastItemHref(Tail(links),
                      IF Contains(Head(links).href, ItemSegment)
                         THEN Head(links).href ELSE url)

\* 1061-1081
ListingIDOf(card) ==
    IF card.dataItemId # <<>> THEN card.dataItemId
    ELSE IF card.idAttr # <<>> THEN card.idAttr
    ELSE IF FirstAnchorHref(card.links) # <<>> THEN ItemIDOf(FirstAnchorHref(card.links))
    ELSE <<>>

\* 1083-1089
ListingTitleOf(card) ==
    IF TrimSpace(card.title) # <<>> THEN TrimSpace(card.title)
    ELSE TrimSpace(card.heading)

\* 1091-1106
ListingURLOf(card) ==
    LET u1 == FirstHref(card.links)
        u2 == IF u1 = <<>> THEN FirstAnchorHref(card.links) ELSE u1
        u3 == IF u2 = <<>> THEN LastItemHref(card.links, <<>>) ELSE u2
    IN normalizeURL(u3)

\* 1108-1116
ListingPriceOf(card) ==
    LET priceText == IF TrimSpace(card.price) # <<>> THEN TrimSpace(card.price)
                     ELSE TrimSpace(card.priceAlt)
    IN IF priceText # <<>> THEN parsePrice(priceText) ELSE ZeroPrice

\* 1118-1123
ListingLocationOf(card) ==
    IF TrimSpace(card.location) # <<>> THEN TrimSpace(card.location)
    ELSE TrimSpace(card.locationAlt)

\* 1125-1135
ListingImagesOf(card) ==
    IF card.imgSrc # <<>> THEN <<card.imgSrc>>
    ELSE IF card.imgDataSrc # <<>> THEN <<card.imgDataSrc>>
    ELSE <<>>

ZeroListing ==
    [ID |-> <<>>, Title |-> <<>>, Description |-> <<>>, Price |-> ZeroPrice,
     URL |-> <<>>, ImageURLs |-> <<>>, Location |-> <<>>, CategoryURL |-> <<>>,
     PublishedAt |-> ZeroTime, Attributes |-> {}]

parseListing(card) ==
    [ZeroListing EXCEPT
        !.ID = ListingIDOf(card),
        !.Title = ListingTitleOf(card),
        !.URL = ListingURLOf(card),
        !.Price = ListingPriceOf(card),
        !.Location = ListingLocationOf(card),
        !.ImageURLs = ListingImagesOf(card)]

\* if listing.ID != "" && listing.Title != "" (577)
KeepsCard(listing) == listing.ID # <<>> /\ listing.Title # <<>>

\* if limit > 0 && count >= limit (572, 602)
LimitReached(limit, count) == limit > 0 /\ count >= limit

\* e.ForEach(selector, ...) of one container (570-582): found holds the
\* listings appended for this selector so far; its length is count
RECURSIVE ForEachCard(_, _, _, _)
ForEachCard(matches, limit, categoryURL, found) ==
    IF matches = <<>> THEN found
    ELSE IF LimitReached(limit, Len(found))
       THEN ForEachCard(Tail(matches), limit, categoryURL, found)
    ELSE LET listing == parseListing(Head(matches))
         IN IF KeepsCard(listing)
               THEN ForEachCard(Tail(matches), limit, categoryURL,
                                Append(found, [listing EXCEPT !.CategoryURL = categoryURL]))
               ELSE ForEachCard(Tail(matches), limit, categoryURL, found)

Matching(cards, selector) == SelectSeq(cards, LAMBDA card : selector \in card.matches)

\* for _, selector := range itemSelectors (569-588): the listings of the
\* first selector that counts at least one
RECURSIVE TrySelectors(_, _, _, _)
TrySelectors(cards, i, limit, categoryURL) ==
    IF i > Len(itemSelectors) THEN <<>>
    ELSE LET found == ForEachCard(Matching(cards, itemSelectors[i]), limit, categoryURL, <<>>)
         IN IF Len(found) > 0 THEN found
            ELSE TrySelectors(cards, i + 1, limit, categoryURL)

InContainer(cards, c) == SelectSeq(cards, LAMBDA card : card.serp = c)

NumContainers(cards) ==
    IF cards = <<>> THEN 0
    ELSE CHOOSE c \in {cards[i].serp : i \in 1..Len(cards)} :
            \A i \in 1..Len(cards) : cards[i].serp <= c

\* c.OnHTML("div[data-marker='catalog-serp']", ...) (557-589): colly calls it
\* once for every element the selector matches, in document order
RECURSIVE OnCatalogSerp(_, _, _, _, _)
OnCatalogSerp(cards, c, limit, categoryURL, listings) ==
    IF c > NumContainers(cards) THEN listings
    ELSE OnCatalogSerp(cards, c + 1, limit, categoryURL,
                       listings \o TrySelectors(InContainer(cards, c), 1, limit, categoryURL))

\* All a[href] of the page, in document order
RECURSIVE CardAnchors(_)
CardAnchors(cards) ==
    IF cards = <<>> THEN <<>>
    ELSE SelectSeq(Head(cards).links, LAMBDA a : a.href # <<>>) \o CardAnchors(Tail(cards))

AnchorsOf(page) ==
    CardAnchors(page.cards) \o SelectSeq(page.loose, LAMBDA a : a.href # <<>>)

\* 611-645: one anchor of the page-wide scan.  The text of an anchor holds the
\* text of its descendants, so the second look for a title (617) finds
\* nothing when the first finds nothing.
AnchorListing(a, categoryURL) ==
    [ZeroListing EXCEPT
        !.Title = TrimSpace(a.text),
        !.URL = normalizeURL(a.href),
        !.ID = ItemIDOf(a.href),
        !.Price = IF TrimSpace(a.price) # <<>> THEN parsePrice(TrimSpace(a.price))
                  ELSE ZeroPrice,
        !.CategoryURL = categoryURL]

RECURSIVE ScanAnchors(_, _, _, _)
ScanAnchors(anchors, limit, categoryURL, found) ==
    IF anchors = <<>> THEN found
    ELSE IF LimitReached(limit, Len(found))
       THEN ScanAnchors(Tail(anchors), limit, categoryURL, found)
    ELSE IF Contains(Head(anchors).href, ItemSegment) /\ TrimSpace(Head(anchors).text) # <<>>
       THEN ScanAnchors(Tail(anchors), limit, categoryURL,
                        Append(found, AnchorListing(Head(anchors), categoryURL)))
    ELSE ScanAnchors(Tail(anchors), limit, categoryURL, found)

\* A body callback that scans the anchors whatever was found before
OnListingsBodyAlways(page, limit, categoryURL, listings) ==
    listings \o ScanAnchors(AnchorsOf(page), limit, categoryURL, <<>>)

\* c.OnHTML("body", ...) (592-650)
OnListingsBody(page, limit, categoryURL, listings) ==
    IF Len(listings) > 0 THEN listings
    ELSE ScanAnchors(AnchorsOf(page), limit, categoryURL, <<>>)

\* The callbacks of a good response, in the order they were registered
ParseListingsPage(page, limit, categoryURL) ==
    OnListingsBody(page, limit, categoryURL,
                   OnCatalogSerp(page.cards, 1, limit, categoryURL, <<>>))

\* The sleeps of the OnError callback when no retry leaves (523, 530): 10 s,
\* then 5 s * retries for retries = 1..maxRetries
RECURSIVE BackoffTotal(_)
BackoffTotal(n) == IF n = 0 THEN 0 ELSE 5 * n + BackoffTotal(n - 1)

ErrorSleep(kind, status) ==
    IF ShouldRetry(kind, status) THEN 10 + BackoffTotal(maxRetries) ELSE 0

\* A loop that drops the listing whose details failed
EnrichStepDropping(acc, listing, r) ==
    [listings |-> IF r.err # "nil" THEN acc.listings ELSE Append(acc.listings, r.listing),
     clock |-> r.clock, at |-> r.at,
     enriched |-> Append(acc.enriched, listing.URL)]

\* 675-680: what one call of GetListingDetails adds.  acc: the listings
\* appended, the clock, lastRequestTime and the URLs it was called for.
EnrichStep(acc, listing, r) ==
    [listings |-> Append(acc.listings, IF r.err # "nil" THEN listing ELSE r.listing),
     clock |-> r.clock, at |-> r.at,
     enriched |-> Append(acc.enriched, listing.URL)]

\* 671-674: the wait before the call, and the call
EnrichOne(listing, answer, tw) ==
    GetListingDetails(listing, answer.page, answer.status, tw, tw)

\* 662-686: the loop over the listings found
RECURSIVE EnrichAll(_, _, _)
EnrichAll(listings, details, acc) ==
    IF listings = <<>> THEN acc
    ELSE IF Head(listings).URL # <<>>
       THEN EnrichAll(Tail(listings), details,
                      EnrichStep(acc, Head(listings),
                                 EnrichOne(Head(listings), details[Head(listings).URL],
                                           AfterWait(acc.clock, acc.at))))
       ELSE EnrichAll(Tail(listings), details,
                      [acc EXCEPT !.listings = Append(acc.listings, Head(listings))])

\* 685, 688: what GetListings returns.  found: the listings of the page
\* before the detail loop.
ListingsReturned(found, r) ==
    [listings |-> r.listings, err |-> "nil", found |-> found, enriched |-> r.enriched,
     clock |-> r.clock, at |-> r.at]

EnrichFound(found, details, t) ==
    ListingsReturned(found,
                     EnrichAll(found, details,
                               [listings |-> <<>>, clock |-> t, at |-> t, enriched |-> <<>>]))

\* 655-658: the page request, made at time t: its error, or the callbacks
\* and the detail loop
VisitCategory(categoryURL, limit, page, status, details, t) ==
    IF IsError(status)
       THEN [listings |-> <<>>, err |-> "error visiting category page",
             found |-> <<>>, enriched |-> <<>>,
             clock |-> t + ErrorSleep("listings", status), at |-> t]
       ELSE EnrichFound(ParseListingsPage(page, limit, categoryURL), details, t)

\* GetListings(categoryURL, limit) for a URL that is no catalog URL, against
\* a site that answers the page request with `status` and `page` and the
\* detail requests as `details` says.  The waits of lines 653 and 516 (in
\* OnRequest) come before the request.  The clock counts the waits of
\* waitForRateLimit and the sleeps of the callbacks; the delay of the
\* collector's LimitRule (506-510) only adds to it.
GetListingsStd(categoryURL, limit, page, status, details, t, last) ==
    VisitCategory(categoryURL, limit, page, status, details,
                  AfterWait(AfterWait(t, last), AfterWait(t, last)))

(***************************************************************************)
(* One call of GetListingDetails, for every listing and every detail page  *)
(* of a small vocabulary.                                                  *)
(***************************************************************************)
ItemURL == baseURL \o ItemSegment \o <<"x", "_", "1">>

DetailListings ==
    { [ZeroListing EXCEPT !.Title = title, !.Description = description,
                          !.Price = price, !.URL = url, !.ImageURLs = images,
                          !.Location = location, !.Attributes = attributes] :
        title \in {<<>>, <<"t">>},
        description \in {<<>>, <<"d">>},
        price \in {ZeroPrice, parsePrice(<<"5", "0", "0">>)},
        url \in {<<>>, ItemURL},
        images \in {<<>>, << <<"i">> >>},
        location \in {<<>>, <<"m">>},
        attributes \in {{}, {<< <<"k">>, <<"v">> >>}} }

NoImage == [src |-> <<>>, srcset |-> <<>>, dataSrc |-> <<>>]

Images ==
    { [NoImage EXCEPT !.src = <<"a">>],
      [NoImage EXCEPT !.srcset = <<"b", " ", "2", "x">>],
      [NoImage EXCEPT !.dataSrc = <<"c">>] }

SeqsUpTo(S, n) == UNION {[1..k -> S] : k \in 0..n}

DetailPages ==
    [h1 : {<<>>, << <<" ", "h">> >>},
     description : {<<>>, << <<" ", "e", "\n">> >>},
     images : SeqsUpTo(Images, MaxImages),
     address : {<<>>, << <<"n", " ">> >>},
     price : {<<>>, << <<"7", "0", "0">> >>},
     date : {<<>>, << <<Segodnya>> >>},
     params : {<<>>, << <<"k", ":", " ", "w">> >>}]

NotCalled(listing) ==
    [listing |-> listing, err |-> "none", sent |-> 0, waits |-> 0,
     at |-> 0 - minRequestInterval, clock |-> 0]

InitDetails ==
    /\ dIn \in DetailListings
    /\ dPage \in DetailPages
    /\ dStatus = 200
    /\ dDone = FALSE
    /\ dOut = NotCalled(dIn)

\* The call returns r, having run the clock to r.clock
DetailsReturn(r) ==
    /\ dOut' = r
    /\ now' = r.clock
    /\ lastRequestTime' = r.at

GetDetails(status) ==
    /\ ~dDone
    /\ DetailsReturn(GetListingDetails(dIn, dPage, status, now, lastRequestTime))
    /\ dStatus' = status
    /\ dDone' = TRUE
    /\ UNCHANGED <<dIn, dPage, pc, wakeAt, stamp, grants, calls>>

(***************************************************************************)
(* One call of GetListings on a category page, for every page made of a    *)
(* small vocabulary of item cards and anchors.                             *)
(***************************************************************************)
CategoryURL == baseURL \o <<"/", "c">>

BlankCard ==
    [serp |-> 0, matches |-> {}, dataItemId |-> <<>>, idAttr |-> <<>>, links |-> <<>>,
     title |-> <<>>, heading |-> <<>>, price |-> <<>>, priceAlt |-> <<>>,
     location |-> <<>>, locationAlt |-> <<>>, imgSrc |-> <<>>, imgDataSrc |-> <<>>]

NoAnchor == [href |-> <<>>, text |-> <<>>, price |-> <<>>]

\* A card with everything: id attribute, title, link, price, place, image
FullCard ==
    [BlankCard EXCEPT
        !.matches = {itemSelectors[1]},
        !.dataItemId = <<"7">>,
        !.links = << [NoAnchor EXCEPT !.href = ItemSegment \o <<"x", "_", "1">>,
                                      !.text = <<"t">>] >>,
        !.title = <<"t">>,
        !.price = <<"9", "0">>,
        !.location = <<"m">>,
        !.imgSrc = <<"i">>]

\* A card with a title and a link from which no id can be read
NoIdCard ==
    [BlankCard EXCEPT
        !.matches = {itemSelectors[1]},
        !.links = << [NoAnchor EXCEPT !.href = ItemSegment \o <<"x">>,
                                      !.text = <<"u">>] >>,
        !.title = <<"u">>]

\* A card of a later selector, with the id in its link and a heading only
HeadingCard ==
    [BlankCard EXCEPT
        !.matches = {itemSelectors[3], itemSelectors[4]},
        !.links = << [NoAnchor EXCEPT !.href = ItemSegment \o <<"y", "_", "2">>,
                                      !.text = <<"h">>] >>,
        !.heading = <<" ", "h">>,
        !.imgDataSrc = <<"j">>]

\* A card with nothing in it
EmptyCard == [BlankCard EXCEPT !.matches = {itemSelectors[1]}]

CardKinds == {FullCard, NoIdCard, HeadingCard, EmptyCard}

AnchorKinds ==
    { [NoAnchor EXCEPT !.href = ItemSegment \o <<"z", "_", "3">>, !.text = <<"a">>,
                       !.price = <<"5">>],
      [NoAnchor EXCEPT !.href = ItemSegment \o <<"w", "_", "4">>],
      [NoAnchor EXCEPT !.href = <<"/", "h">>, !.text = <<"b">>] }

Cards == {[kind EXCEPT !.serp = c] : kind \in CardKinds, c \in 0..MaxContainers}

\* Document order: the containers follow each other, and the cards outside
\* of them (serp 0) come first
InDocumentOrder(cards) ==
    \A i \in 1..Len(cards) - 1 : cards[i].serp <= cards[i + 1].serp

ListingPages ==
    {page \in [cards : SeqsUpTo(Cards, MaxCards),
               loose : SeqsUpTo(AnchorKinds, MaxAnchors)] :
        InDocumentOrder(page.cards)}

Limits == (0 - 1)..MaxLimit

\* Every URL a listing of such a page can have
ListingURLs ==
    {parseListing(card).URL : card \in CardKinds}
        \cup {normalizeURL(a.href) : a \in AnchorKinds}

SampleDetailPage ==
    [h1 |-> << <<" ", "h">> >>, description |-> << <<"e">> >>, images |-> <<>>,
     address |-> << <<"n">> >>, price |-> <<>>, date |-> <<>>, params |-> <<>>]

\* The site's answers to the detail requests
DetailsOf(failing) ==
    [u \in ListingURLs |->
        [status |-> IF u \in failing THEN 500 ELSE 200, page |-> SampleDetailPage]]

FailingSets ==
    SUBSET {parseListing(FullCard).URL,
            normalizeURL(ItemSegment \o <<"z", "_", "3">>)}

NotListed ==
    [listings |-> <<>>, err |-> "none", found |-> <<>>, enriched |-> <<>>,
     clock |-> 0, at |-> 0 - minRequestInterval]

InitListings ==
    /\ lLimit \in Limits
    /\ lPage \in ListingPages
    /\ lStatus = 200
    /\ lFailing = {}
    /\ lDone = FALSE
    /\ lOut = NotListed

\* The call returns r, having run the clock to r.clock
ListingsReturn(r) ==
    /\ lOut' = r
    /\ now' = r.clock
    /\ lastRequestTime' = r.at

\* GetListings(CategoryURL, lLimit) when the page request succeeds
ListingsOk(failing) ==
    /\ ~lDone
    /\ ListingsReturn(GetListingsStd(CategoryURL, lLimit, lPage, 200, DetailsOf(failing),
                                     now, lastRequestTime))
    /\ lStatus' = 200
    /\ lFailing' = failing
    /\ lDone' = TRUE
    /\ UNCHANGED <<lLimit, lPage, pc, wakeAt, stamp, grants, calls>>

\* GetListings(CategoryURL, lLimit) when the page request fails
ListingsFail(status) ==
    /\ ~lDone
    /\ IsError(status)
    /\ ListingsReturn(GetListingsStd(CategoryURL, lLimit, lPage, status, DetailsOf({}),
                                     now, lastRequestTime))
    /\ lStatus' = status
    /\ lDone' = TRUE
    /\ UNCHANGED <<lLimit, lPage, lFailing, pc, wakeAt, stamp, grants, calls>>

(***************************************************************************)
(* handleCatalogPage.                                                      *)
(*                                                                         *)
(* A catalog page is the sequence of its anchors in document order, each   *)
(* with its href and the element `in` which it stands: an element that an  *)
(* item selector matches (inside the items container), a catalog card, or  *)
(* just the body.  Such an element holds the one anchor.                   *)
(***************************************************************************)
\* itemSelectors of the items callback (761-766)
catalogItemSelectors ==
    <<"div[data-item-id]", "div.item-wrapper", "div.catalog-item", "div.item">>

CatalogCard == "div.catalog-card"

Body == "body"

\* 774-790: one element of an item selector.  href: the trimmed href of its
\* first a[href]; the search for an anchor with "/item/" (777-784) looks at
\* the same anchor.
CollectItem(link, limit, itemURLs) ==
    IF LimitReached(limit, Len(itemURLs)) THEN itemURLs
    ELSE IF TrimSpace(link.href) # <<>>
       THEN Append(itemURLs, normalizeURL(TrimSpace(link.href)))
    ELSE IF Contains(link.href, ItemSegment)
       THEN Append(itemURLs, normalizeURL(link.href))
    ELSE itemURLs

\* e.ForEach(selector, ...) (769-791)
RECURSIVE ForEachItem(_, _, _, _)
ForEachItem(links, selector, limit, itemURLs) ==
    IF links = <<>> THEN itemURLs
    ELSE ForEachItem(Tail(links), selector, limit,
                     IF Head(links).in = selector
                        THEN CollectItem(Head(links), limit, itemURLs)
                        ELSE itemURLs)

\* for _, selector := range itemSelectors (768-797)
RECURSIVE TryItemSelectors(_, _, _, _)
TryItemSelectors(links, i, limit, itemURLs) ==
    IF i > Len(catalogItemSelectors) \/ Len(itemURLs) > 0 THEN itemURLs
    ELSE TryItemSelectors(links, i + 1, limit,
                          ForEachItem(links, catalogItemSelectors[i], limit, itemURLs))

HasItemsContainer(page) ==
    \E i \in 1..Len(page), j \in 1..Len(catalogItemSelectors) :
        page[i].in = catalogItemSelectors[j]

\* c.OnHTML("div.items-items, div.catalog-items", ...) (757-798).  The loop
\* runs its first selector before it looks at len(itemURLs), which is 0.
OnCatalogItems(page, limit) ==
    IF HasItemsContainer(page)
       THEN TryItemSelectors(page, 2, limit,
                             ForEachItem(page, catalogItemSelectors[1], limit, <<>>))
       ELSE <<>>

\* c.OnHTML("div.catalog-card, ...", ...) (801-811), once for every card
RECURSIVE OnCatalogCards(_, _, _)
OnCatalogCards(links, limit, itemURLs) ==
    IF links = <<>> THEN itemURLs
    ELSE OnCatalogCards(Tail(links), limit,
                        IF /\ Head(links).in = CatalogCard
                           /\ ~LimitReached(limit, Len(itemURLs))
                           /\ TrimSpace(Head(links).href) # <<>>
                           THEN Append(itemURLs, normalizeURL(TrimSpace(Head(links).href)))
                           ELSE itemURLs)

\* 822-832: the anchors that point to item pages
RECURSIVE ScanItemLinks(_, _, _)
ScanItemLinks(links, limit, itemURLs) ==
    IF links = <<>> THEN itemURLs
    ELSE ScanItemLinks(Tail(links), limit,
                       IF /\ ~LimitReached(limit, Len(itemURLs))
                          /\ Contains(Head(links).href, ItemSegment)
                          THEN Append(itemURLs, normalizeURL(Head(links).href))
                          ELSE itemURLs)

\* 849-853
excluded ==
    { <<"/", "f", "a", "v", "o", "r", "i", "t", "e", "s">>,
      <<"/", "p", "r", "o", "f", "i", "l", "e">>,
      <<"/", "a", "u", "t", "h">>,
      <<"/", "s", "u", "p", "p", "o", "r", "t">>,
      <<"/", "s", "t", "a", "t">> }

AvitoRu == <<"a", "v", "i", "t", "o", ".", "r", "u">>

\* 841-863: the anchor may be a subcategory
IsCandidate(href, catalogURL) ==
    /\ HasPrefix(href, <<"/">>) \/ Contains(href, AvitoRu)
    /\ \A word \in excluded : ~Contains(href, word)
    /\ normalizeURL(href) # catalogURL

\* 836-867
RECURSIVE ScanSubcategoryLinks(_, _, _, _)
ScanSubcategoryLinks(links, limit, catalogURL, itemURLs) ==
    IF links = <<>> THEN itemURLs
    ELSE ScanSubcategoryLinks(Tail(links), limit, catalogURL,
                              IF /\ ~LimitReached(limit, Len(itemURLs))
                                 /\ IsCandidate(Head(links).href, catalogURL)
                                 THEN Append(itemURLs, normalizeURL(Head(links).href))
                                 ELSE itemURLs)

\* 835: the second scan runs when the first found nothing
SecondPriority(page, limit, catalogURL, itemURLs) ==
    IF Len(itemURLs) = 0
       THEN ScanSubcategoryLinks(page, limit, catalogURL, itemURLs)
       ELSE itemURLs

\* c.OnHTML("body", ...) (814-871)
OnCatalogBody(page, limit, catalogURL, itemURLs) ==
    IF Len(itemURLs) > 0 THEN itemURLs
    ELSE SecondPriority(page, limit, catalogURL, ScanItemLinks(page, limit, <<>>))

\* itemURLs after the callbacks of a good response, in the order they were
\* registered
CollectURLs(page, limit, catalogURL) ==
    OnCatalogBody(page, limit, catalogURL,
                  OnCatalogCards(page, limit, OnCatalogItems(page, limit)))

\* 899-912
ItemListing(url, catalogURL) ==
    [ZeroListing EXCEPT !.URL = url, !.CategoryURL = catalogURL, !.ID = ItemIDOf(url)]

\* 915-923: the listings after GetListingDetails returned r
AfterDetails(listings, listing, r) ==
    IF r.err # "nil"
       THEN IF listing.ID # <<>> THEN Append(listings, listing) ELSE listings
       ELSE Append(listings, r.listing)

\* 933-941: subListings folded into listings
RECURSIVE FoldUncapped(_, _, _)
FoldUncapped(listings, subListings, limit) ==
    IF subListings = <<>> THEN listings
    ELSE FoldUncapped(Append(listings, Head(subListings)), Tail(subListings), limit)

RECURSIVE Fold(_, _, _)
Fold(listings, subListings, limit) ==
    IF subListings = <<>> \/ LimitReached(limit, Len(listings)) THEN listings
    ELSE Fold(Append(listings, Head(subListings)), Tail(subListings), limit)

(***************************************************************************)
(* One call of GetListings on a catalog URL, as the steps of its calls of  *)
(* handleCatalogPage: the call for a URL that is no item goes back into    *)
(* GetListings, which starts handleCatalogPage again when the URL is a     *)
(* catalog URL (490-492).  A frame holds the locals of one call.           *)
(***************************************************************************)
CatalogA == baseURL \o CatalogSegment \o <<"a">>

CatalogB == baseURL \o CatalogSegment \o <<"b">>

LinkKinds ==
    { [href |-> ItemSegment \o <<"x", "_", "1">>, in |-> catalogItemSelectors[1]],
      [href |-> ItemSegment \o <<"y", "_", "2">>, in |-> catalogItemSelectors[4]],
      [href |-> ItemSegment \o <<"x", "_", "1">>, in |-> CatalogCard],
      [href |-> ItemSegment \o <<"z">>, in |-> Body],
      [href |-> CatalogSegment \o <<"b">>, in |-> Body],
      [href |-> <<"/", "c">>, in |-> Body],
      [href |-> <<"/", "p", "r", "o", "f", "i", "l", "e">>, in |-> Body] }

\* What a catalog page other than the first holds: a link back, or an item
InnerPages ==
    { << [href |-> CatalogSegment \o <<"a">>, in |-> Body] >>,
      << [href |-> ItemSegment \o <<"y", "_", "2">>, in |-> catalogItemSelectors[1]] >> }

Sites == [a : SeqsUpTo(LinkKinds, MaxLinks), b : InnerPages]

PageAt(site, url) == IF url = CatalogA THEN site.a ELSE site.b

\* The category page of the site: two results containers with a card each
CategoryPage ==
    [cards |-> << [FullCard EXCEPT !.serp = 1], [FullCard EXCEPT !.serp = 2] >>,
     loose |-> <<>>]

NewCall(catalogURL, limit) ==
    [url |-> catalogURL, limit |-> limit, visited |-> FALSE, itemURLs |-> <<>>,
     i |-> 1, listings |-> <<>>, folded |-> 0, dropped |-> 0]

NotReturned ==
    [listings |-> <<>>, err |-> "none", itemURLs |-> <<>>, i |-> 1,
     folded |-> 0, dropped |-> 0]

Returned(frame, err) ==
    [listings |-> IF err = "nil" THEN frame.listings ELSE <<>>, err |-> err,
     itemURLs |-> frame.itemURLs, i |-> frame.i,
     folded |-> frame.folded, dropped |-> frame.dropped]

InitCatalog ==
    /\ cLimit \in Limits
    /\ cSite \in Sites
    /\ cStack = <<>>
    /\ cDone = FALSE
    /\ cOut = NotReturned

Running == Len(cStack)

Callee == cStack[Running]

\* The loop of 886 has a URL to work on
AtURL ==
    /\ Running > 0
    /\ Callee.visited
    /\ Callee.i <= Len(Callee.itemURLs)
    /\ ~LimitReached(Callee.limit, Len(Callee.listings))

\* The stack after the innermost call put `frame` in place of its own
SetCallee(frame) == [cStack EXCEPT ![Running] = frame]

\* 927-945 in the caller: subListings come back from GetListings(url, 1)
Resume(frame, subListings) ==
    [frame EXCEPT
        !.listings = Fold(frame.listings, subListings, frame.limit),
        !.folded = @ + Len(Fold(frame.listings, subListings, frame.limit))
                     - Len(frame.listings),
        !.dropped = @ + Len(frame.listings) + Len(subListings)
                      - Len(Fold(frame.listings, subListings, frame.limit)),
        !.i = @ + 1]

\* 928-931 in the caller: GetListings(url, 1) failed; continue
Skip(frame) == [frame EXCEPT !.i = @ + 1]

\* GetListings(CatalogA, cLimit): the URL is a catalog URL (490-492)
CatStart ==
    /\ ~cDone
    /\ cStack = <<>>
    /\ IsCatalogURL(CatalogA)
    /\ cStack' = <<NewCall(CatalogA, cLimit)>>
    /\ UNCHANGED <<cLimit, cSite, cDone, cOut, rateVars>>

\* 874-881: the waits (874, 716), the page request and its callbacks
CatVisitOk ==
    /\ Running > 0
    /\ ~Callee.visited
    /\ cStack' = SetCallee([Callee EXCEPT
                               !.visited = TRUE,
                               !.itemURLs = CollectURLs(PageAt(cSite, Callee.url),
                                                        Callee.limit, Callee.url)])
    /\ now' = AfterWait(AfterWait(now, lastRequestTime), AfterWait(now, lastRequestTime))
    /\ lastRequestTime' = now'
    /\ UNCHANGED <<cLimit, cSite, cDone, cOut, pc, wakeAt, stamp, grants, calls>>

\* 876-879: the page request fails and the call returns its error
CatVisitFail(status) ==
    /\ Running > 0
    /\ ~Callee.visited
    /\ IsError(status)
    /\ lastRequestTime' =
          AfterWait(AfterWait(now, lastRequestTime), AfterWait(now, lastRequestTime))
    /\ now' = lastRequestTime' + ErrorSleep("catalog", status)
    /\ IF Running = 1
          THEN /\ cStack' = <<>>
               /\ cDone' = TRUE
               /\ cOut' = Returned(Callee, "error visiting catalog page")
          ELSE /\ cStack' = [SubSeq(cStack, 1, Running - 1)
                                EXCEPT ![Running - 1] = Skip(cStack[Running - 1])]
               /\ UNCHANGED <<cDone, cOut>>
    /\ UNCHANGED <<cLimit, cSite, pc, wakeAt, stamp, grants, calls>>

\* What GetListingDetails returned, and the sleep of 945
CatItemReturn(listing, r) ==
    /\ cStack' = SetCallee([Callee EXCEPT
                               !.listings = AfterDetails(@, listing, r),
                               !.i = @ + 1])
    /\ now' = r.clock + 3
    /\ lastRequestTime' = r.at

\* 894-923: the URL is an item URL
CatItem(status) ==
    /\ AtURL
    /\ Contains(Callee.itemURLs[Callee.i], ItemSegment)
    /\ CatItemReturn(
          ItemListing(Callee.itemURLs[Callee.i], Callee.url),
          EnrichOne(ItemListing(Callee.itemURLs[Callee.i], Callee.url),
                    [page |-> SampleDetailPage, status |-> status],
                    AfterWait(now, lastRequestTime)))
    /\ UNCHANGED <<cLimit, cSite, cDone, cOut, pc, wakeAt, stamp, grants, calls>>

\* What the standard path of GetListings(url, 1) returned (928-945)
CatCategoryReturn(r) ==
    /\ cStack' = SetCallee(IF r.err # "nil" THEN Skip(Callee)
                           ELSE Resume(Callee, r.listings))
    /\ now' = IF r.err # "nil" THEN r.clock ELSE r.clock + 3
    /\ lastRequestTime' = r.at

\* 894, 927: the URL is no item URL and no catalog URL
CatCategory(status) ==
    /\ AtURL
    /\ ~Contains(Callee.itemURLs[Callee.i], ItemSegment)
    /\ ~IsCatalogURL(Callee.itemURLs[Callee.i])
    /\ CatCategoryReturn(
          GetListingsStd(Callee.itemURLs[Callee.i], 1, CategoryPage, status,
                         DetailsOf({}), AfterWait(now, lastRequestTime),
                         AfterWait(now, lastRequestTime)))
    /\ UNCHANGED <<cLimit, cSite, cDone, cOut, pc, wakeAt, stamp, grants, calls>>

\* 894, 927, 490-492: the URL is a catalog URL, and GetListings(url, 1)
\* calls handleCatalogPage(url, 1).  MaxDepth bounds the stack of the model;
\* the code has no such bound.
CatDescend ==
    /\ AtURL
    /\ ~Contains(Callee.itemURLs[Callee.i], ItemSegment)
    /\ IsCatalogURL(Callee.itemURLs[Callee.i])
    /\ Running < MaxDepth
    /\ cStack' = Append(cStack, NewCall(Callee.itemURLs[Callee.i], 1))
    /\ now' = AfterWait(now, lastRequestTime)
    /\ lastRequestTime' = now'
    /\ UNCHANGED <<cLimit, cSite, cDone, cOut, pc, wakeAt, stamp, grants, calls>>

\* 886-888, 949: the loop is over and the call returns its listings
CatReturn ==
    /\ Running > 0
    /\ Callee.visited
    /\ ~AtURL
    /\ IF Running = 1
          THEN /\ cStack' = <<>>
               /\ cDone' = TRUE
               /\ cOut' = Returned(Callee, "nil")
               /\ UNCHANGED now
          ELSE /\ cStack' = [SubSeq(cStack, 1, Running - 1)
                                EXCEPT ![Running - 1] =
                                    Resume(cStack[Running - 1], Callee.listings)]
               /\ now' = now + 3
               /\ UNCHANGED <<cDone, cOut>>
    /\ UNCHANGED <<cLimit, cSite, lastRequestTime, pc, wakeAt, stamp, grants, calls>>

(***************************************************************************)
(* getSubcategories.                                                       *)
(*                                                                         *)
(* A category page is the sequence of its anchors in document order, each  *)
(* with the region `in` which it stands (the category map or the           *)
(* rubricator list), its text and its href; `exists` tells whether it has  *)
(* the attribute at all.                                                   *)
(***************************************************************************)
CategoryMap == "div[data-marker='category-map']"

RubricatorList == "ul.rubricator-list"

\* strings.Fields: the words between runs of white space
RECURSIVE WordLen(_)
WordLen(s) ==
    IF s = <<>> \/ Head(s) \in WhiteSpace THEN 0 ELSE 1 + WordLen(Tail(s))

RECURSIVE Fields(_)
Fields(s) ==
    IF TrimLeft(s) = <<>> THEN <<>>
    ELSE <<SubSeq(TrimLeft(s), 1, WordLen(TrimLeft(s)))>>
            \o Fields(SubSeq(TrimLeft(s), WordLen(TrimLeft(s)) + 1, Len(TrimLeft(s))))

\* strings.Join
RECURSIVE Join(_, _)
Join(words, sep) ==
    IF words = <<>> THEN <<>>
    ELSE IF Len(words) = 1 THEN Head(words)
    ELSE Head(words) \o sep \o Join(Tail(words), sep)

\* 412-417
cleanText(text) == TrimSpace(Join(Fields(ReplaceAll(text, "\n", <<" ">>)), <<" ">>))

\* models.Category
NewCategory(name, url) == [Name |-> name, URL |-> url, Subcategories |-> <<>>]

\* 360-370: the anchors of the category map
RECURSIVE OnCategoryMap(_, _)
OnCategoryMap(links, subcategories) ==
    IF links = <<>> THEN subcategories
    ELSE OnCategoryMap(Tail(links),
                       IF /\ Head(links).in = CategoryMap
                          /\ Head(links).exists
                          /\ cleanText(Head(links).text) # <<>>
                          THEN Append(subcategories,
                                      NewCategory(cleanText(Head(links).text),
                                                  normalizeURL(Head(links).href)))
                          ELSE subcategories)

\* 382-388
IsDuplicate(subcategories, url) ==
    \E i \in 1..Len(subcategories) : subcategories[i].URL = url

\* 377-398: the anchors of the rubricator list
RECURSIVE OnRubricatorList(_, _)
OnRubricatorList(links, subcategories) ==
    IF links = <<>> THEN subcategories
    ELSE OnRubricatorList(Tail(links),
                          IF /\ Head(links).in = RubricatorList
                             /\ Head(links).exists
                             /\ cleanText(Head(links).text) # <<>>
                             /\ ~IsDuplicate(subcategories, normalizeURL(Head(links).href))
                             THEN Append(subcategories,
                                         NewCategory(cleanText(Head(links).text),
                                                     normalizeURL(Head(links).href)))
                             ELSE subcategories)

\* getSubcategories(categoryURL) against a site that answers the request
\* with `status` and `page`: the callbacks run in the order registered
getSubcategories(page, status) ==
    IF IsError(status)
       THEN [subcategories |-> <<>>, err |-> "error visiting category page"]
       ELSE [subcategories |-> OnRubricatorList(page, OnCategoryMap(page, <<>>)),
             err |-> "nil"]

(***************************************************************************)
(* GetCategories.                                                          *)
(*                                                                         *)
(* The root page is the sequence of the elements its five rules match, in  *)
(* document order, each with the rule that matches it, the text the rule   *)
(* reads as the name and the href it reads (<<>>: none, or an empty one).  *)
(* categoryMap is a set of <<url, category>> pairs with one pair per url.  *)
(***************************************************************************)
\* The rules in the order their callbacks are registered (220-312)
rules == <<"grid", "dropdown", "mini", "topnav", "service">>

Found(categoryMap, url) == \E e \in categoryMap : e[1] = url

MapGet(categoryMap, url) == (CHOOSE e \in categoryMap : e[1] = url)[2]

\* 226-238: the visual grid fills the name of an entry that has none
GridPut(categoryMap, catName, url) ==
    IF Found(categoryMap, url)
       THEN IF MapGet(categoryMap, url).Name = <<>>
               THEN MapPut(categoryMap, url,
                           [MapGet(categoryMap, url) EXCEPT !.Name = catName])
               ELSE categoryMap
       ELSE MapPut(categoryMap, url, NewCategory(catName, url))

\* 249-253: the dropdown menu
DropdownPut(categoryMap, catName, url) ==
    MapPut(categoryMap, url, NewCategory(catName, url))

\* 265-272, 283-290, 302-309: the mini-menu, the top navigation, the tiles
LaterPut(categoryMap, catName, url) ==
    IF Found(categoryMap, url) THEN categoryMap
    ELSE MapPut(categoryMap, url, NewCategory(catName, url))

\* 223, 247, 262, 280, 299: the rule takes the element
Yields(rule, catName, href) ==
    /\ catName # <<>>
    /\ IF rule = "topnav" THEN HasPrefix(href, <<"/">>) ELSE href # <<>>

\* One element of the page in the callback of `rule`
OnElement(categoryMap, rule, el) ==
    IF el.rule # rule \/ ~Yields(rule, cleanText(el.text), el.href) THEN categoryMap
    ELSE IF rule = "grid"
       THEN GridPut(categoryMap, cleanText(el.text), normalizeURL(el.href))
    ELSE IF rule = "dropdown"
       THEN DropdownPut(categoryMap, cleanText(el.text), normalizeURL(el.href))
    ELSE LaterPut(categoryMap, cleanText(el.text), normalizeURL(el.href))

\* One callback, for every element it matches
RECURSIVE OnRule(_, _, _)
OnRule(categoryMap, rule, page) ==
    IF page = <<>> THEN categoryMap
    ELSE OnRule(OnElement(categoryMap, rule, Head(page)), rule, Tail(page))

\* The callbacks of the root page, from rule i on
RECURSIVE OnRootPage(_, _, _)
OnRootPage(categoryMap, i, page) ==
    IF i > Len(rules) THEN categoryMap
    ELSE OnRootPage(OnRule(categoryMap, rules[i], page), i + 1, page)

AllSegment == <<"/", "a", "l", "l", "/">>

\* A loop that gives up at the first category whose page fails
OnSubcategoryErrorAbort(acc, url) ==
    [acc EXCEPT !.err = "error getting subcategories", !.categories = <<>>,
                !.fetched = Append(@, url), !.i = Len(acc.categories) + 1]

\* 333-336: getSubcategories failed; continue
OnSubcategoryError(acc, url) ==
    [acc EXCEPT !.fetched = Append(@, url), !.i = @ + 1]

\* 337
SetSubcategories(acc, url, subcats) ==
    [acc EXCEPT !.categories[acc.i].Subcategories = subcats,
                !.fetched = Append(@, url), !.i = @ + 1]

\* 332-337: what getSubcategories returned for categories[i]
AfterSubcategories(acc, url, r) ==
    IF r.err # "nil" THEN OnSubcategoryError(acc, url)
    ELSE SetSubcategories(acc, url, r.subcategories)

\* 330-339: the loop over the categories, from acc.i on
RECURSIVE SubcategoryLoop(_, _)
SubcategoryLoop(acc, subs) ==
    IF acc.i > Len(acc.categories) THEN acc
    ELSE IF Contains(acc.categories[acc.i].URL, AllSegment)
       THEN SubcategoryLoop(
               AfterSubcategories(acc, acc.categories[acc.i].URL,
                                  getSubcategories(subs[acc.categories[acc.i].URL].page,
                                                   subs[acc.categories[acc.i].URL].status)),
               subs)
    ELSE SubcategoryLoop([acc EXCEPT !.i = @ + 1], subs)

\* 325-327: the map as a slice; `order` is the order in which the range over
\* the map yields its keys, which Go leaves open
AsSlice(categoryMap, order) == [i \in 1..Len(order) |-> MapGet(categoryMap, order[i])]

Orders(categoryMap) ==
    {order \in [1..Cardinality(categoryMap) -> {e[1] : e \in categoryMap}] :
        \A i, j \in 1..Cardinality(categoryMap) : i # j => order[i] # order[j]}

\* GetCategories() against a site that answers the root request with `status`
\* and `page` and the category requests as `subs` says
GetCategories(page, status, order, subs) ==
    IF IsError(status)
       THEN [categories |-> <<>>, err |-> "error visiting root", fetched |-> <<>>, i |-> 1]
       ELSE SubcategoryLoop([categories |-> AsSlice(OnRootPage({}, 1, page), order),
                             err |-> "nil", fetched |-> <<>>, i |-> 1],
                            subs)

(***************************************************************************)
(* One call of getSubcategories, for every category page made of a small   *)
(* vocabulary of anchors.                                                  *)
(***************************************************************************)
SubLinkKinds ==
    [in : {CategoryMap, RubricatorList},
     text : {<<"A">>, <<" ", "B", "\n">>, <<" ">>},
     href : {<<"/", "x">>, <<"/", "y">>},
     exists : {TRUE}]
        \cup [in : {CategoryMap, RubricatorList}, text : {<<"A">>}, href : {<<>>},
              exists : {FALSE}]

SubPages == SeqsUpTo(SubLinkKinds, MaxSubLinks)

NoSubcategories == [subcategories |-> <<>>, err |-> "none"]

InitSubcategories ==
    /\ sPage \in SubPages
    /\ sStatus = 200
    /\ sDone = FALSE
    /\ sOut = NoSubcategories

GetSubcategoriesCall(status) ==
    /\ ~sDone
    /\ sOut' = getSubcategories(sPage, status)
    /\ sStatus' = status
    /\ sDone' = TRUE
    /\ UNCHANGED sPage

(***************************************************************************)
(* One call of GetCategories, for every root page made of a small          *)
(* vocabulary of elements.                                                 *)
(***************************************************************************)
AllA == AllSegment \o <<"a">>

AllB == AllSegment \o <<"b">>

RootElements ==
    [rule : {rules[i] : i \in 1..Len(rules)},
     text : {<<"A">>, <<"B">>},
     href : {AllA, AllB}]
        \cup { [rule |-> "grid", text |-> <<" ">>, href |-> AllA],
               [rule |-> "mini", text |-> <<" ", "C", "\n">>, href |-> <<"/", "c">>],
               [rule |-> "dropdown", text |-> <<"D">>, href |-> <<"/", "c">>],
               [rule |-> "topnav", text |-> <<"A">>, href |-> <<"c">>],
               [rule |-> "service", text |-> <<"A">>, href |-> <<>>] }

RootPages == SeqsUpTo(RootElements, MaxEntries)

\* Every URL a category of such a page can have
CategoryURLs == {normalizeURL(el.href) : el \in RootElements}

SampleCategoryPage ==
    << [in |-> CategoryMap, text |-> <<"S">>, href |-> <<"/", "x">>, exists |-> TRUE],
       [in |-> RubricatorList, text |-> <<"T">>, href |-> <<"/", "y">>, exists |-> TRUE] >>

\* The site's answers to the category requests
SubsOf(failing) ==
    [u \in CategoryURLs |->
        [status |-> IF u \in failing THEN 500 ELSE 200, page |-> SampleCategoryPage]]

NoCategories == [categories |-> <<>>, err |-> "none", fetched |-> <<>>, i |-> 1]

InitCategories ==
    /\ gPage \in RootPages
    /\ gStatus = 200
    /\ gFailing = {}
    /\ gOrder = <<>>
    /\ gDone = FALSE
    /\ gOut = NoCategories
    /\ gFirst = NoCategories

\* GetCategories() when the root request succeeds
CategoriesOk(order, failing) ==
    /\ ~gDone
    /\ gOut' = GetCategories(gPage, 200, order, SubsOf(failing))
    /\ gStatus' = 200
    /\ gFailing' = failing
    /\ gOrder' = order
    /\ gDone' = TRUE
    /\ UNCHANGED <<gPage, gFirst>>

\* GetCategories() once more against the same site: the same root page and
\* the same failing category pages; the range over the new categoryMap runs
\* in an order of its own
CategoriesOkAgain(order) ==
    /\ gDone
    /\ gOut.err = "nil"
    /\ gFirst = NoCategories
    /\ gFirst' = gOut
    /\ gOut' = GetCategories(gPage, 200, order, SubsOf(gFailing))
    /\ gOrder' = order
    /\ UNCHANGED <<gPage, gStatus, gFailing, gDone>>

\* GetCategories() when the root request fails
CategoriesFail(status) ==
    /\ ~gDone
    /\ IsError(status)
    /\ gOut' = GetCategories(gPage, status, <<>>, SubsOf({}))
    /\ gStatus' = status
    /\ gDone' = TRUE
    /\ UNCHANGED <<gPage, gFailing, gOrder, gFirst>>

(***************************************************************************)
(* normalizeURL on every href of a few characters, and on its own result.  *)
(***************************************************************************)
HrefSymbols == {"h", "t", "p", "/", ":", "1"}

\* "http-cars/1"
HttpCars == <<"h", "t", "t", "p", "-", "c", "a", "r", "s", "/", "1">>

\* "mailto:a"
MailTo == <<"m", "a", "i", "l", "t", "o", ":", "a">>

\* "t://h:p", a URL with a port that is not a number
BadPort == <<"t", ":", "/", "/", "h", ":", "p">>

Hrefs == SeqsUpTo(HrefSymbols, MaxHrefLen) \cup {HttpCars, MailTo, BadPort}

InitNormalize ==
    /\ nIn \in Hrefs
    /\ nOut = <<>>
    /\ nAgain = <<>>
    /\ nStep = 0

\* url := normalizeURL(href)
Normalize ==
    /\ nStep = 0
    /\ nOut' = normalizeURL(nIn)
    /\ nStep' = 1
    /\ UNCHANGED <<nIn, nAgain>>

\* normalizeURL(url), as on a URL that a later page links to as it stands
NormalizeAgain ==
    /\ nStep = 1
    /\ nAgain' = normalizeURL(nOut)
    /\ nStep' = 2
    /\ UNCHANGED <<nIn, nOut>>

(***************************************************************************)
(* One call of parsePrice, on every text of a few characters.              *)
(***************************************************************************)
PriceSymbols == {"0", "1", "5", " ", ",", ".", Dollar, Euro, "x"}

\* "1 234,50 $"
PriceInDollars == <<"1", " ", "2", "3", "4", ",", "5", "0", " ", Dollar>>

\* "бесплатно", as nine letters
Free == <<"b", "e", "s", "p", "l", "a", "t", "n", "o">>

PriceTexts == SeqsUpTo(PriceSymbols, MaxPriceLen) \cup {PriceInDollars, Free}

InitPrice ==
    /\ pIn \in PriceTexts
    /\ pOut = ZeroPrice
    /\ pDone = FALSE

ParsePriceCall ==
    /\ ~pDone
    /\ pOut' = parsePrice(pIn)
    /\ pDone' = TRUE
    /\ UNCHANGED pIn

(***************************************************************************)
(* ParseItemsFromHTML, on the document of a listing page.  The cards are   *)
(* looked for in the whole document; `title` is the text of the first node *)
(* a title selector matches (<<>>: none), `price` and `priceAlt` those of  *)
(* the price selectors.  The anchors of a card stand in an element of      *)
(* their own, so the parent of an anchor holds no price node but the       *)
(* anchor's.                                                               *)
(***************************************************************************)
\* itemSelectors of ParseItemsFromHTML (1225-1233)
htmlItemSelectors ==
    <<"div[data-marker='item']", "div[data-marker='item-card']", "div.iva-item-root",
      "div.styles-item-m0DD4", "div.js-item", "div.item", "div.item-card">>

\* item.Find("a[href*='/item/']").First(): its href, "" when there is none
RECURSIVE FirstItemHref(_)
FirstItemHref(links) ==
    IF links = <<>> THEN <<>>
    ELSE IF Contains(Head(links).href, ItemSegment) THEN Head(links).href
    ELSE FirstItemHref(Tail(links))

\* 1281-1290: the text of the first anchor that has one and points to an item
RECURSIVE FirstItemLinkText(_)
FirstItemLinkText(links) ==
    IF links = <<>> THEN <<>>
    ELSE IF TrimSpace(Head(links).text) # <<>> /\ Contains(Head(links).href, ItemSegment)
       THEN TrimSpace(Head(links).text)
    ELSE FirstItemLinkText(Tail(links))

\* 1241-1323: the listing of one element
HtmlItem(card) ==
    [ZeroListing EXCEPT
        !.ID = IF card.dataItemId # <<>> THEN card.dataItemId
               ELSE ItemIDOf(FirstItemHref(card.links)),
        !.Title = IF TrimSpace(card.title) # <<>> THEN TrimSpace(card.title)
                  ELSE FirstItemLinkText(card.links),
        !.URL = IF FirstItemHref(card.links) # <<>>
                   THEN normalizeURL(FirstItemHref(card.links)) ELSE <<>>,
        !.Price = ListingPriceOf(card)]

\* 1240-1329: items.Each; a listing with neither title nor URL is left out
RECURSIVE EachItem(_, _)
EachItem(items, listings) ==
    IF items = <<>> THEN listings
    ELSE EachItem(Tail(items),
                  IF HtmlItem(Head(items)).Title # <<>> \/ HtmlItem(Head(items)).URL # <<>>
                     THEN Append(listings, HtmlItem(Head(items))) ELSE listings)

\* 1236-1334: the selectors in their order, up to the first that matches
RECURSIVE FindItems(_, _)
FindItems(cards, i) ==
    IF i > Len(htmlItemSelectors) THEN [found |-> FALSE, listings |-> <<>>]
    ELSE IF Len(Matching(cards, htmlItemSelectors[i])) > 0
       THEN [found |-> TRUE,
             listings |-> EachItem(Matching(cards, htmlItemSelectors[i]), <<>>)]
    ELSE FindItems(cards, i + 1)

\* 1343-1381: one anchor of the fallback
HtmlAnchorListing(a) ==
    [ZeroListing EXCEPT
        !.Title = TrimSpace(a.text),
        !.URL = normalizeURL(a.href),
        !.ID = ItemIDOf(a.href),
        !.Price = IF TrimSpace(a.price) # <<>> THEN parsePrice(TrimSpace(a.price))
                  ELSE ZeroPrice]

AnchorListingsOf(anchors) == [i \in 1..Len(anchors) |-> HtmlAnchorListing(anchors[i])]

\* 1342-1382: doc.Find("a[href]").Each
ScanLinks(anchors, listings) ==
    listings \o AnchorListingsOf(SelectSeq(anchors,
                   LAMBDA a : Contains(a.href, ItemSegment) /\ TrimSpace(a.text) # <<>>))

\* 1338: if !found || len(listings) == 0
NeedsFallback(r) == ~r.found \/ Len(r.listings) = 0

\* The rest of the function after the selector loop returned r
AfterFindItems(page, r) ==
    [listings |-> IF NeedsFallback(r) THEN ScanLinks(AnchorsOf(page), r.listings)
                  ELSE r.listings,
     err |-> "nil", found |-> r.found, cascade |-> r.listings,
     scanned |-> NeedsFallback(r)]

\* ParseItemsFromHTML(htmlContent): goquery reads every string as a document
ParseItemsFromHTML(page) == AfterFindItems(page, FindItems(page.cards, 1))

NotParsed ==
    [listings |-> <<>>, err |-> "none", found |-> FALSE, cascade |-> <<>>,
     scanned |-> FALSE]

ParseItemsCall ==
    /\ ~hDone
    /\ hOut' = ParseItemsFromHTML(lPage)
    /\ hDone' = TRUE

(***************************************************************************)
(* The specifications: each runs one machine and keeps the others idle.    *)
(***************************************************************************)
IdleSeq ==
    /\ op = "none"
    /\ acq = 0
    /\ reqLog = <<>>

IdleFetch ==
    /\ fKind = "none"
    /\ fVisited = FALSE
    /\ fSent = <<>>
    /\ fStack = <<>>
    /\ fRotations = 0
    /\ fRecovers = FALSE
    /\ fParsed = 0
    /\ fResult = "none"
    /\ fLog = <<>>

IdleDetails ==
    /\ dIn = ZeroListing
    /\ dPage = [h1 |-> <<>>, description |-> <<>>, images |-> <<>>, address |-> <<>>,
                price |-> <<>>, date |-> <<>>, params |-> <<>>]
    /\ dStatus = 200
    /\ dDone = FALSE
    /\ dOut = NotCalled(ZeroListing)

IdleListings ==
    /\ lLimit = 0
    /\ lPage = [cards |-> <<>>, loose |-> <<>>]
    /\ lStatus = 200
    /\ lFailing = {}
    /\ lDone = FALSE
    /\ lOut = NotListed

IdleCatalog ==
    /\ cLimit = 0
    /\ cSite = [a |-> <<>>, b |-> <<>>]
    /\ cStack = <<>>
    /\ cDone = FALSE
    /\ cOut = NotReturned

IdleSubcategories ==
    /\ sPage = <<>>
    /\ sStatus = 200
    /\ sDone = FALSE
    /\ sOut = NoSubcategories

IdleCategories ==
    /\ gPage = <<>>
    /\ gStatus = 200
    /\ gFailing = {}
    /\ gOrder = <<>>
    /\ gDone = FALSE
    /\ gOut = NoCategories
    /\ gFirst = NoCategories

IdleNormalize ==
    /\ nIn = <<>>
    /\ nOut = <<>>
    /\ nAgain = <<>>
    /\ nStep = 0

IdlePrice ==
    /\ pIn = <<>>
    /\ pOut = ZeroPrice
    /\ pDone = FALSE

IdleItems ==
    /\ hDone = FALSE
    /\ hOut = NotParsed

\* Concurrent callers of waitForRateLimit.
NextRate ==
    \/ \E p \in Ctx : RateCall(p) /\ UNCHANGED <<seqVars, fetchVars, detVars, lstVars, catVars, subVars, rootVars, urlVars, priceVars, htmlVars>>
    \/ \E p \in Ctx : WaitElapsed(p) /\ UNCHANGED <<seqVars, fetchVars, detVars, lstVars, catVars, subVars, rootVars, urlVars, priceVars, htmlVars>>
    \/ \E p \in Ctx : WaitSleep(p) /\ UNCHANGED <<seqVars, fetchVars, detVars, lstVars, catVars, subVars, rootVars, urlVars, priceVars, htmlVars>>
    \/ \E p \in Ctx : WaitNow(p) /\ UNCHANGED <<seqVars, fetchVars, detVars, lstVars, catVars, subVars, rootVars, urlVars, priceVars, htmlVars>>
    \/ \E p \in Ctx : WaitStore(p) /\ UNCHANGED <<seqVars, fetchVars, detVars, lstVars, catVars, subVars, rootVars, urlVars, priceVars, htmlVars>>
    \/ Tick /\ UNCHANGED <<seqVars, fetchVars, detVars, lstVars, catVars, subVars, rootVars, urlVars, priceVars, htmlVars>>

InitRateOnly == InitRate /\ IdleSeq /\ IdleFetch /\ IdleDetails /\ IdleListings /\ IdleCatalog
        /\ IdleSubcategories /\ IdleCategories /\ IdleNormalize /\ IdlePrice /\ IdleItems

SpecRate == InitRateOnly /\ [][NextRate]_vars

\* A sequential run of page requests.
NextSeq ==
    \/ \E k \in Ops : SeqStart(k) /\ UNCHANGED <<fetchVars, detVars, lstVars, catVars, subVars, rootVars, urlVars, priceVars, htmlVars>>
    \/ SeqAcquire /\ UNCHANGED <<fetchVars, detVars, lstVars, catVars, subVars, rootVars, urlVars, priceVars, htmlVars>>
    \/ SeqRequest /\ UNCHANGED <<fetchVars, detVars, lstVars, catVars, subVars, rootVars, urlVars, priceVars, htmlVars>>
    \/ WaitElapsed(1) /\ UNCHANGED <<seqVars, fetchVars, detVars, lstVars, catVars, subVars, rootVars, urlVars, priceVars, htmlVars>>
    \/ WaitSleep(1) /\ UNCHANGED <<seqVars, fetchVars, detVars, lstVars, catVars, subVars, rootVars, urlVars, priceVars, htmlVars>>
    \/ WaitNow(1) /\ UNCHANGED <<seqVars, fetchVars, detVars, lstVars, catVars, subVars, rootVars, urlVars, priceVars, htmlVars>>
    \/ WaitStore(1) /\ UNCHANGED <<seqVars, fetchVars, detVars, lstVars, catVars, subVars, rootVars, urlVars, priceVars, htmlVars>>
    \/ Tick /\ UNCHANGED <<seqVars, fetchVars, detVars, lstVars, catVars, subVars, rootVars, urlVars, priceVars, htmlVars>>

InitSeq == InitRate /\ IdleSeq /\ IdleFetch /\ IdleDetails /\ IdleListings /\ IdleCatalog
        /\ IdleSubcategories /\ IdleCategories /\ IdleNormalize /\ IdlePrice /\ IdleItems

SpecSeq == InitSeq /\ [][NextSeq]_vars

\* Page fetches with their OnError callbacks.
NextFetch ==
    \/ \E kind \in FetchKinds, status \in Statuses :
          FetchVisit(kind, status) /\ UNCHANGED <<rateVars, seqVars, detVars, lstVars, catVars, subVars, rootVars, urlVars, priceVars, htmlVars>>
    \/ FetchHandlerReturn /\ UNCHANGED <<rateVars, seqVars, detVars, lstVars, catVars, subVars, rootVars, urlVars, priceVars, htmlVars>>
    \/ FetchRetry /\ UNCHANGED <<rateVars, seqVars, detVars, lstVars, catVars, subVars, rootVars, urlVars, priceVars, htmlVars>>
    \/ FetchDone /\ UNCHANGED <<rateVars, seqVars, detVars, lstVars, catVars, subVars, rootVars, urlVars, priceVars, htmlVars>>

InitFetch == InitRate /\ IdleSeq /\ IdleFetch /\ IdleDetails /\ IdleListings /\ IdleCatalog
        /\ IdleSubcategories /\ IdleCategories /\ IdleNormalize /\ IdlePrice /\ IdleItems

SpecFetch == InitFetch /\ [][NextFetch]_vars

\* Every step of a fetch is a step of the one goroutine that runs it.
SpecFetchFair == SpecFetch /\ WF_vars(NextFetch)

\* One call of GetListingDetails.
NextDetails ==
    \E status \in Statuses : GetDetails(status) /\ UNCHANGED <<seqVars, fetchVars, lstVars, catVars, subVars, rootVars, urlVars, priceVars, htmlVars>>

InitDetailsOnly == InitRate /\ IdleSeq /\ IdleFetch /\ InitDetails /\ IdleListings /\ IdleCatalog
        /\ IdleSubcategories /\ IdleCategories /\ IdleNormalize /\ IdlePrice /\ IdleItems

SpecDetails == InitDetailsOnly /\ [][NextDetails]_vars

\* One call of GetListings on a category page.
NextListings ==
    \/ \E failing \in FailingSets :
          ListingsOk(failing) /\ UNCHANGED <<seqVars, fetchVars, detVars, catVars, subVars, rootVars, urlVars, priceVars, htmlVars>>
    \/ \E status \in Statuses :
          ListingsFail(status) /\ UNCHANGED <<seqVars, fetchVars, detVars, catVars, subVars, rootVars, urlVars, priceVars, htmlVars>>

InitListingsOnly == InitRate /\ IdleSeq /\ IdleFetch /\ IdleDetails /\ InitListings /\ IdleCatalog
        /\ IdleSubcategories /\ IdleCategories /\ IdleNormalize /\ IdlePrice /\ IdleItems

SpecListings == InitListingsOnly /\ [][NextListings]_vars

\* One call of GetListings on a catalog URL.
NextCatalog ==
    \/ CatStart /\ UNCHANGED <<seqVars, fetchVars, detVars, lstVars, subVars, rootVars, urlVars, priceVars, htmlVars>>
    \/ CatVisitOk /\ UNCHANGED <<seqVars, fetchVars, detVars, lstVars, subVars, rootVars, urlVars, priceVars, htmlVars>>
    \/ \E status \in Statuses :
          CatVisitFail(status) /\ UNCHANGED <<seqVars, fetchVars, detVars, lstVars, subVars, rootVars, urlVars, priceVars, htmlVars>>
    \/ \E status \in Statuses :
          CatItem(status) /\ UNCHANGED <<seqVars, fetchVars, detVars, lstVars, subVars, rootVars, urlVars, priceVars, htmlVars>>
    \/ \E status \in Statuses :
          CatCategory(status) /\ UNCHANGED <<seqVars, fetchVars, detVars, lstVars, subVars, rootVars, urlVars, priceVars, htmlVars>>
    \/ CatDescend /\ UNCHANGED <<seqVars, fetchVars, detVars, lstVars, subVars, rootVars, urlVars, priceVars, htmlVars>>
    \/ CatReturn /\ UNCHANGED <<seqVars, fetchVars, detVars, lstVars, subVars, rootVars, urlVars, priceVars, htmlVars>>

InitCatalogOnly ==
    InitRate /\ IdleSeq /\ IdleFetch /\ IdleDetails /\ IdleListings /\ InitCatalog
        /\ IdleSubcategories /\ IdleCategories /\ IdleNormalize /\ IdlePrice /\ IdleItems

SpecCatalog == InitCatalogOnly /\ [][NextCatalog]_vars

\* One call of getSubcategories.
NextSubcategories ==
    \E status \in Statuses :
        GetSubcategoriesCall(status)
            /\ UNCHANGED <<rateVars, seqVars, fetchVars, detVars, lstVars, catVars, rootVars, urlVars, priceVars, htmlVars>>

InitSubcategoriesOnly ==
    InitRate /\ IdleSeq /\ IdleFetch /\ IdleDetails /\ IdleListings /\ IdleCatalog
        /\ InitSubcategories /\ IdleCategories /\ IdleNormalize /\ IdlePrice /\ IdleItems

SpecSubcategories == InitSubcategoriesOnly /\ [][NextSubcategories]_vars

\* One call of GetCategories.
NextCategories ==
    \/ \E failing \in SUBSET {normalizeURL(AllA), normalizeURL(AllB)} :
          \E order \in Orders(OnRootPage({}, 1, gPage)) :
              CategoriesOk(order, failing)
                  /\ UNCHANGED <<rateVars, seqVars, fetchVars, detVars, lstVars, catVars, subVars, urlVars, priceVars, htmlVars>>
    \/ \E status \in Statuses :
          CategoriesFail(status)
              /\ UNCHANGED <<rateVars, seqVars, fetchVars, detVars, lstVars, catVars, subVars, urlVars, priceVars, htmlVars>>

InitCategoriesOnly ==
    InitRate /\ IdleSeq /\ IdleFetch /\ IdleDetails /\ IdleListings /\ IdleCatalog
        /\ IdleSubcategories /\ InitCategories /\ IdleNormalize /\ IdlePrice /\ IdleItems

SpecCategories == InitCategoriesOnly /\ [][NextCategories]_vars

\* Two calls of GetCategories, one after the other, against the same site.
NextCategoriesTwice ==
    \/ NextCategories
    \/ \E order \in Orders(OnRootPage({}, 1, gPage)) :
          CategoriesOkAgain(order)
              /\ UNCHANGED <<rateVars, seqVars, fetchVars, detVars, lstVars, catVars, subVars, urlVars, priceVars, htmlVars>>

SpecCategoriesTwice == InitCategoriesOnly /\ [][NextCategoriesTwice]_vars

\* normalizeURL, twice.
NextNormalize ==
    \/ Normalize
          /\ UNCHANGED <<rateVars, seqVars, fetchVars, detVars, lstVars, catVars, subVars,
                         rootVars, priceVars, htmlVars>>
    \/ NormalizeAgain
          /\ UNCHANGED <<rateVars, seqVars, fetchVars, detVars, lstVars, catVars, subVars,
                         rootVars, priceVars, htmlVars>>

InitNormalizeOnly ==
    InitRate /\ IdleSeq /\ IdleFetch /\ IdleDetails /\ IdleListings /\ IdleCatalog
        /\ IdleSubcategories /\ IdleCategories /\ InitNormalize /\ IdlePrice /\ IdleItems

SpecNormalize == InitNormalizeOnly /\ [][NextNormalize]_vars

\* One call of parsePrice.
NextPrice ==
    ParsePriceCall
        /\ UNCHANGED <<rateVars, seqVars, fetchVars, detVars, lstVars, catVars, subVars,
                       rootVars, urlVars, htmlVars>>

InitPriceOnly ==
    InitRate /\ IdleSeq /\ IdleFetch /\ IdleDetails /\ IdleListings /\ IdleCatalog
        /\ IdleSubcategories /\ IdleCategories /\ IdleNormalize /\ InitPrice /\ IdleItems

SpecPrice == InitPriceOnly /\ [][NextPrice]_vars

\* One call of GetListings and one of ParseItemsFromHTML on the same page.
NextScan ==
    \/ ListingsOk({})
          /\ UNCHANGED <<seqVars, fetchVars, detVars, catVars, subVars, rootVars, urlVars,
                         priceVars, htmlVars>>
    \/ ParseItemsCall
          /\ UNCHANGED <<rateVars, seqVars, fetchVars, detVars, lstVars, catVars, subVars,
                         rootVars, urlVars, priceVars>>

SpecScan == InitListingsOnly /\ [][NextScan]_vars

(***************************************************************************)
(* The claims.                                                             *)
(***************************************************************************)

(***************************************************************************)
(* C1: the grants of two contexts that call waitForRateLimit concurrently  *)
(* are at least minRequestInterval apart.                                  *)
(***************************************************************************)
C1_GrantsSerialized ==
    \A i, j \in 1..Len(grants) :
        (i < j /\ grants[i].ctx # grants[j].ctx)
            => grants[j].at - grants[i].at >= minRequestInterval

(***************************************************************************)
(* C2: every page request of every entry point follows a rate-limit        *)
(* acquisition, and consecutive page requests of a sequential run are at   *)
(* least minRequestInterval apart.                                         *)
(***************************************************************************)
C2_EveryRequestGoverned ==
    \A i \in 1..Len(reqLog) :
        /\ reqLog[i].acq >= 1
        /\ i > 1 => reqLog[i].at - reqLog[i-1].at >= minRequestInterval

(***************************************************************************)
(* C3: a fetch of a listing or catalog page that receives 429 is           *)
(* re-attempted at most maxRetries times, its retry process ends, and the  *)
(* entry point then returns an error.                                      *)
(***************************************************************************)
Got429 == fKind \in {"listings", "catalog"} /\ fSent # <<>> /\ fSent[1].status = 429

ReAttempts == Len(fSent) - 1

C3_RetriesBounded ==
    /\ [](Got429 => /\ ReAttempts <= maxRetries
                     /\ fResult # "ok"
                     /\ \A i \in 1..Len(fStack) : fStack[i].retries <= maxRetries)
    /\ ((Got429 /\ fResult = "none") ~> (Got429 /\ fResult = "err"))

C3_Witness ==
    /\ Got429
    /\ fResult = "err"
    /\ fStack = <<>>
    /\ fRotations = maxRetries

(***************************************************************************)
(* C4: a fetch that fails with anything but 429 sends exactly one request, *)
(* never has its User-Agent rotated, and makes the entry point return an   *)
(* error.                                                                  *)
(***************************************************************************)
FailedNot429 == fSent # <<>> /\ IsError(fSent[1].status) /\ fSent[1].status # 429

C4_NoRetryUnless429 ==
    FailedNot429 =>
        /\ Len(fSent) = 1
        /\ fRotations = 0
        /\ \A i \in 1..Len(fStack) : fStack[i].ua = CollectorUA
        /\ fStack = <<>> => fResult = "err"

C4_Witness ==
    /\ FailedNot429
    /\ fKind = "listings"
    /\ fResult = "err"

(***************************************************************************)
(* C5: GetListingDetails changes no field of the listing that was          *)
(* non-empty before the call.                                              *)
(***************************************************************************)
C5_NonEmptyFieldsKept ==
    dDone =>
        /\ dIn.Title # <<>> => dOut.listing.Title = dIn.Title
        /\ dIn.Description # <<>> => dOut.listing.Description = dIn.Description
        /\ dIn.Location # <<>> => dOut.listing.Location = dIn.Location
        /\ dIn.Price.Value # Zero => dOut.listing.Price = dIn.Price
        /\ dIn.ImageURLs # <<>> => dOut.listing.ImageURLs = dIn.ImageURLs
        /\ dIn.Attributes # {} => dOut.listing.Attributes = dIn.Attributes

(***************************************************************************)
(* C6: a region that the detail page lacks leaves its field of the listing *)
(* at the value it had before the call, and no error is returned.          *)
(***************************************************************************)
C6_MissingRegionKeepsField ==
    (dDone /\ dIn.URL # <<>> /\ ~IsError(dStatus)) =>
        /\ dOut.err = "nil"
        /\ dPage.description = <<>> => dOut.listing.Description = dIn.Description
        /\ dPage.address = <<>> => dOut.listing.Location = dIn.Location
        /\ dPage.images = <<>> => dOut.listing.ImageURLs = dIn.ImageURLs
        /\ dPage.price = <<>> => dOut.listing.Price = dIn.Price
        /\ dPage.date = <<>> => dOut.listing.PublishedAt = dIn.PublishedAt
        /\ dPage.params = <<>> => dOut.listing.Attributes = dIn.Attributes


(***************************************************************************)
(* C7: for a limit above zero the standard path of GetListings returns at  *)
(* most `limit` listings, and they are listings of the page's item cards   *)
(* (or, from the page-wide scan, of its anchors) in document order.        *)
(***************************************************************************)
ListedOk == lDone /\ lOut.err = "nil"

\* seq picks elements of `of` in their order
RECURSIVE IsSubSeq(_, _)
IsSubSeq(seq, of) ==
    IF seq = <<>> THEN TRUE
    ELSE IF of = <<>> THEN FALSE
    ELSE IF Head(seq) = Head(of) THEN IsSubSeq(Tail(seq), Tail(of))
    ELSE IsSubSeq(seq, Tail(of))

CardListings(cards) ==
    [i \in 1..Len(cards) |-> [parseListing(cards[i]) EXCEPT !.CategoryURL = CategoryURL]]

AnchorListings(anchors) ==
    [i \in 1..Len(anchors) |-> AnchorListing(anchors[i], CategoryURL)]

C7_AtMostLimitInOrder ==
    (ListedOk /\ lLimit > 0) =>
        /\ Len(lOut.listings) <= lLimit
        /\ \/ IsSubSeq(lOut.found, CardListings(lPage.cards))
           \/ IsSubSeq(lOut.found, AnchorListings(AnchorsOf(lPage)))

(***************************************************************************)
(* C10: listing discovery discards the candidate of an item card if and    *)
(* only if it has neither a title nor a URL; a card with a title and a URL *)
(* but no id is kept.  Stated for the cards of the first item selector     *)
(* inside a results container, under a limit that caps nothing.            *)
(***************************************************************************)
IsKept(listing) ==
    \E j \in 1..Len(lOut.found) : lOut.found[j] = [listing EXCEPT !.CategoryURL = CategoryURL]

C10_DiscardedIffNoTitleNoURL ==
    (ListedOk /\ lLimit <= 0) =>
        \A i \in 1..Len(lPage.cards) :
            (lPage.cards[i].serp >= 1 /\ itemSelectors[1] \in lPage.cards[i].matches) =>
                LET listing == parseListing(lPage.cards[i])
                IN IsKept(listing) <=> (listing.Title # <<>> \/ listing.URL # <<>>)


(***************************************************************************)
(* C8: for a limit above zero no call of handleCatalogPage holds or        *)
(* returns more than `limit` listings, those folded in from GetListings    *)
(* included; for a limit of zero or less the URLs collected are those      *)
(* collected under a limit no page reaches, the loop works on every one of *)
(* them, and the fold drops nothing.                                       *)
(***************************************************************************)
Uncapped == MaxLinks + MaxLinks

C8_AtMostLimitListings ==
    /\ \A d \in 1..Len(cStack) :
          cStack[d].limit > 0 => Len(cStack[d].listings) <= cStack[d].limit
    /\ (cDone /\ cLimit > 0) => Len(cOut.listings) <= cLimit
    /\ (cDone /\ cLimit <= 0 /\ cOut.err = "nil") =>
          /\ cOut.itemURLs = CollectURLs(cSite.a, Uncapped, CatalogA)
          /\ cOut.i = Len(cOut.itemURLs) + 1
          /\ cOut.dropped = 0

\* The outermost call returned `limit` listings, one of them folded in from
\* a GetListings(url, 1) that returned more than the limit left room for
C8_Witness ==
    /\ cDone
    /\ cLimit > 0
    /\ cOut.err = "nil"
    /\ Len(cOut.listings) = cLimit
    /\ cOut.folded > 0
    /\ cOut.dropped > 0

(***************************************************************************)
(* C9: the call of GetListings(url, 1) that handleCatalogPage makes for a  *)
(* URL that is no item runs the standard path and starts no catalog        *)
(* traversal of its own: only the outermost call of handleCatalogPage ever *)
(* runs, and no catalog page is fetched while its own traversal runs.      *)
(***************************************************************************)
C9_NoNestedTraversal ==
    /\ Len(cStack) <= 1
    /\ \A d, e \in 1..Len(cStack) : d # e => cStack[d].url # cStack[e].url


(***************************************************************************)
(* C11: the standard path of GetListings returns one entry for every       *)
(* listing found on the page, in the order found; GetListingDetails is     *)
(* called once for each of them that has a URL, and the entry of a listing *)
(* whose details failed is the listing as found, the later ones still      *)
(* being enriched.                                                         *)
(***************************************************************************)
RECURSIVE NonEmptyURLs(_)
NonEmptyURLs(listings) ==
    IF listings = <<>> THEN <<>>
    ELSE (IF Head(listings).URL # <<>> THEN <<Head(listings).URL>> ELSE <<>>)
            \o NonEmptyURLs(Tail(listings))

C11_OneEntryPerSummary ==
    ListedOk =>
        /\ Len(lOut.listings) = Len(lOut.found)
        /\ lOut.enriched = NonEmptyURLs(lOut.found)
        /\ \A i \in 1..Len(lOut.found) :
              lOut.listings[i] =
                 IF lOut.found[i].URL = <<>> \/ lOut.found[i].URL \in lFailing
                    THEN lOut.found[i]
                    ELSE OnDetailPage(lOut.found[i], SampleDetailPage, 0)

\* The details of the first of two listings failed, those of the second did not
C11_Witness ==
    /\ ListedOk
    /\ Len(lOut.found) = 2
    /\ lOut.found[1].URL \in lFailing
    /\ lOut.found[2].URL \notin lFailing
    /\ lOut.listings[1] = lOut.found[1]
    /\ lOut.listings[2].Description = <<"e">>

\* The (name, href) pairs the rules of a root page yield, in the order the
\* callbacks run: rule by rule from rule i on, each in document order
RECURSIVE YieldedFrom(_, _)
YieldedFrom(i, page) ==
    IF i > Len(rules) THEN <<>>
    ELSE SelectSeq(page, LAMBDA el : el.rule = rules[i]
                                        /\ Yields(rules[i], cleanText(el.text), el.href))
            \o YieldedFrom(i + 1, page)

\* The first non-empty name yielded for url
FirstName(ys, url) ==
    cleanText(ys[CHOOSE k \in 1..Len(ys) :
                    /\ normalizeURL(ys[k].href) = url
                    /\ \A j \in 1..(k - 1) : normalizeURL(ys[j].href) # url].text)

CategoriesOk200 == gDone /\ gOut.err = "nil"

\* C12: the categories GetCategories accumulates from the root page hold one
\* Category per canonical URL, named by the first non-empty name that any
\* rule yielded for that URL; a later rule yielding another name for the
\* URL does not change it.
C12_FirstNonEmptyNameWins ==
    CategoriesOk200 =>
        /\ \A i, j \in 1..Len(gOut.categories) :
              gOut.categories[i].URL = gOut.categories[j].URL => i = j
        /\ \A i \in 1..Len(gOut.categories) :
              gOut.categories[i].Name =
                 FirstName(YieldedFrom(1, gPage), gOut.categories[i].URL)

\* C13: the list getSubcategories returns holds no two entries with the
\* same normalized URL, whichever region the links come from and however
\* often a link is repeated within one region.
C13_NoDuplicateSubcategories ==
    (sDone /\ sOut.err = "nil") =>
        \A i, j \in 1..Len(sOut.subcategories) :
            normalizeURL(sOut.subcategories[i].URL)
               = normalizeURL(sOut.subcategories[j].URL) => i = j

Attempted(url) == \E k \in 1..Len(gOut.fetched) : gOut.fetched[k] = url

\* C14: a failing subcategory fetch does not fail GetCategories: it returns
\* a nil error and every top-level category; a category whose page failed
\* is kept with no subcategories, every other category with "/all/" in its
\* URL had its page fetched and its subcategories set; GetCategories
\* returns an error exactly when the root request fails.
C14_SubcategoryFailureSkipped ==
    gDone =>
        /\ (gOut.err # "nil") <=> IsError(gStatus)
        /\ ~IsError(gStatus) =>
              /\ Len(gOut.categories) = Cardinality(OnRootPage({}, 1, gPage))
              /\ \A i \in 1..Len(gOut.categories) :
                    /\ gOut.categories[i].URL = gOrder[i]
                    /\ Found(OnRootPage({}, 1, gPage), gOut.categories[i].URL)
                    /\ Contains(gOut.categories[i].URL, AllSegment) =>
                          /\ Attempted(gOut.categories[i].URL)
                          /\ gOut.categories[i].Subcategories =
                                IF gOut.categories[i].URL \in gFailing THEN <<>>
                                ELSE getSubcategories(SampleCategoryPage, 200).subcategories

C14_Witness ==
    /\ CategoriesOk200
    /\ Len(gOut.categories) = 2
    /\ gOut.categories[1].URL \in gFailing
    /\ gOut.categories[1].Subcategories = <<>>
    /\ gOut.categories[2].URL \notin gFailing
    /\ Contains(gOut.categories[2].URL, AllSegment)
    /\ Attempted(gOut.categories[2].URL)
    /\ Len(gOut.categories[2].Subcategories) = 2

NoRepeat(s) == \A i, j \in 1..Len(s) : s[i] = s[j] => i = j

\* C15: the item URLs that one call of handleCatalogPage collects from its
\* page never hold the same URL twice, so no URL is fetched or enriched
\* twice within the call.
C15_ItemURLsDistinct ==
    /\ \A d \in 1..Len(cStack) : NoRepeat(cStack[d].itemURLs)
    /\ cDone => NoRepeat(cOut.itemURLs)

\* C16: GetListingDetails of a listing with an empty URL returns an error
\* and the listing as it was given, sends no request and does not take a
\* turn at the rate limiter: lastRequestTime and the clock stay as they are.
C16_EmptyURLRejected ==
    [][(~dDone /\ dDone' /\ dIn.URL = <<>>) =>
          /\ dOut'.err = "listing URL is empty"
          /\ dOut'.listing = dIn
          /\ dOut'.sent = 0
          /\ dOut'.waits = 0
          /\ lastRequestTime' = lastRequestTime
          /\ now' = now]_vars

C16_Witness ==
    /\ dDone
    /\ dIn.URL = <<>>
    /\ dIn.Title # <<>>
    /\ dOut.err = "listing URL is empty"
    /\ dOut.listing = dIn

\* C17: normalizeURL of a non-empty href is a non-empty absolute URL, one
\* with a scheme and a host; also when the href is a relative path that
\* begins with the letters "http" or has a scheme other than http.
C17_NormalizedIsAbsolute ==
    (nStep >= 1 /\ nIn # <<>>) =>
        /\ nOut # <<>>
        /\ ~URLParse(nOut).err
        /\ URLParse(nOut).scheme # <<>>
        /\ URLParse(nOut).host # <<>>

\* C18: normalizeURL is idempotent: normalizing its result gives the result.
C18_NormalizeIdempotent == nStep = 2 => nAgain = nOut

C18_Witness ==
    /\ nStep = 2
    /\ nIn # <<>>
    /\ ~HasPrefix(nIn, <<"/">>)
    /\ nOut = baseURL \o <<"/">> \o nIn
    /\ nAgain = nOut

HasSymbol(s, c) == \E i \in 1..Len(s) : s[i] = c

\* The first run of digits, white space, commas and points of a text, with
\* its spaces removed and its commas turned into points
FirstRun(text) == ReplaceAll(ReplaceAll(FindPriceRun(text), " ", <<>>), ",", <<".">>)

\* C19: parsePrice returns a Price whose text is the raw input, whose
\* currency is USD when the input holds a dollar sign, else EUR when it holds
\* a euro sign, else RUB, and whose value is 0 when the first run of digits,
\* spaces and separators is not a number; "1 234,50 $" gives 1234.5 USD and
\* a text without digits gives 0 RUB.
C19_PriceParsed ==
    pDone =>
        /\ pOut.Text = pIn
        /\ pOut.Currency = IF HasSymbol(pIn, Dollar) THEN "USD"
                           ELSE IF HasSymbol(pIn, Euro) THEN "EUR"
                           ELSE "RUB"
        /\ ~ParseFloat(FirstRun(pIn)).ok => pOut.Value = Zero
        /\ ParseFloat(FirstRun(pIn)).ok => pOut.Value = ParseFloat(FirstRun(pIn)).value
        /\ pIn = PriceInDollars =>
              pOut = [Value |-> [n |-> 12345, k |-> 1], Currency |-> "USD",
                      Text |-> PriceInDollars]
        /\ pIn = Free => pOut = [Value |-> Zero, Currency |-> "RUB", Text |-> Free]

C19_Witness ==
    /\ pDone
    /\ HasSymbol(pIn, Dollar)
    /\ HasSymbol(pIn, Euro)
    /\ FindPriceRun(pIn) # <<>>
    /\ ~ParseFloat(FirstRun(pIn)).ok
    /\ pOut = [Value |-> Zero, Currency |-> "USD", Text |-> pIn]

\* C20: the n-th re-attempt after a 429 is a request that is sent and that
\* carries userAgents[n mod len(userAgents)]: every turn of the retry loop
\* has sent one request more, and the n-th request after the first carries
\* the n-th rotated User-Agent.
C20_RotatedAgentSent ==
    Got429 =>
        /\ Len(fSent) = fRotations + 1
        /\ \A n \in 1..(Len(fSent) - 1) :
              fSent[n + 1].ua = UserAgentAt(n % Len(userAgents))

\* The first item selector that matches a card of the container
FirstSelector(cards) ==
    itemSelectors[CHOOSE i \in 1..Len(itemSelectors) :
                     /\ Matching(cards, itemSelectors[i]) # <<>>
                     /\ \A k \in 1..(i - 1) : Matching(cards, itemSelectors[k]) = <<>>]

\* The j-th listing found is what parseListing reads from a card of a
\* results container, and not what the page-wide scan makes of an anchor
FromCascade(j) ==
    /\ \E i \in 1..Len(lPage.cards) :
          lPage.cards[i].serp >= 1 /\ lOut.found[j] = CardListings(lPage.cards)[i]
    /\ \A k \in 1..Len(AnchorsOf(lPage)) :
          lOut.found[j] # AnchorListings(AnchorsOf(lPage))[k]

\* C21: within a results container the item selectors are tried in their
\* order and the first one that matches an element is the last one
\* evaluated: every listing read from a card comes from a card that the
\* first matching selector of its container matches, also when none of
\* that selector's cards gives a usable listing.
C21_FirstMatchingSelectorOnly ==
    ListedOk =>
        \A j \in 1..Len(lOut.found) :
            FromCascade(j) =>
                \E i \in 1..Len(lPage.cards) :
                    /\ lPage.cards[i].serp >= 1
                    /\ lOut.found[j] = CardListings(lPage.cards)[i]
                    /\ FirstSelector(InContainer(lPage.cards, lPage.cards[i].serp))
                          \in lPage.cards[i].matches

\* The listing is what the page-wide scan of GetListings makes of an anchor
\* that points to an item and has a text
ScannedFrom(listing) ==
    \E k \in 1..Len(AnchorsOf(lPage)) :
        /\ Contains(AnchorsOf(lPage)[k].href, ItemSegment)
        /\ TrimSpace(AnchorsOf(lPage)[k].text) # <<>>
        /\ listing = AnchorListing(AnchorsOf(lPage)[k], CategoryURL)

\* The same for the fallback of ParseItemsFromHTML
HtmlScannedFrom(listing) ==
    \E k \in 1..Len(AnchorsOf(lPage)) :
        /\ Contains(AnchorsOf(lPage)[k].href, ItemSegment)
        /\ TrimSpace(AnchorsOf(lPage)[k].text) # <<>>
        /\ listing = HtmlAnchorListing(AnchorsOf(lPage)[k])

\* What GetListings found, given what its selector cascade found
ScanOnlyAfterEmpty(cascade) ==
    /\ cascade # <<>> => lOut.found = cascade
    /\ cascade = <<>> => \A j \in 1..Len(lOut.found) : ScannedFrom(lOut.found[j])

\* C22: the page-wide anchor scan runs only when the selector cascade found
\* no listing: when the cascade found one, the result is what the cascade
\* found; when the scan runs, each of its listings comes from an anchor
\* whose href contains "/item/" and whose title is not empty.  For
\* GetListings and for ParseItemsFromHTML.
C22_ScanOnlyWhenCascadeEmpty ==
    /\ ListedOk => ScanOnlyAfterEmpty(OnCatalogSerp(lPage.cards, 1, lLimit, CategoryURL, <<>>))
    /\ hDone =>
          /\ hOut.err = "nil"
          /\ hOut.cascade # <<>> => (~hOut.scanned /\ hOut.listings = hOut.cascade)
          /\ hOut.scanned =>
                \A j \in 1..Len(hOut.listings) : HtmlScannedFrom(hOut.listings[j])

\* Both functions met a card that gave no listing and took theirs from an
\* anchor of the page
C22_Witness ==
    /\ ListedOk
    /\ hDone
    /\ \E i \in 1..Len(lPage.cards) : lPage.cards[i].serp >= 1
    /\ Len(AnchorsOf(lPage)) >= 2
    /\ lOut.found # <<>>
    /\ \A j \in 1..Len(lOut.found) : ScannedFrom(lOut.found[j])
    /\ hOut.found
    /\ hOut.scanned
    /\ hOut.listings # <<>>

\* C23: when the first request of a listing or catalog fetch is answered 429
\* and the site answers a re-attempt with success, the entry point returns
\* a nil error and the page of the re-attempt has been parsed.
C23_RecoveredFetchSucceeds ==
    (Got429 /\ fRecovers /\ fResult # "none") => (fResult = "ok" /\ fParsed >= 1)

\* C24: no write to lastRequestTime stores a value below the one it
\* replaces, in any interleaving of the concurrent waitForRateLimit calls.
C24_LastRequestTimeMonotonic == [][lastRequestTime' >= lastRequestTime]_vars

URLsOf(categories) == [i \in 1..Len(categories) |-> categories[i].URL]

CalledTwice == gDone /\ gFirst # NoCategories

\* C25: two calls of GetCategories over the same root document return the
\* top-level categories in the same sequence order: the URLs of the second
\* call's categories are, position by position, those of the first call's.
C25_SameOrderEveryRun ==
    CalledTwice => URLsOf(gOut.categories) = URLsOf(gFirst.categories)

====
